---- MODULE Spec2Model ----
(***************************************************************************)
(* Model of the sanitisation pipeline (transformCode, in its two versions, *)
(* of components/CodeDiffViewer.tsx and of App.tsx), of the metrics        *)
(* calculator (calculateSecurityMetrics) and of the submissions that run   *)
(* them (handleCodeTransformation).                                        *)
(* Texts are TLA+ strings; every regular expression of the source is       *)
(* written as a syntax tree and run by a backtracking matcher that follows *)
(* the ECMAScript matching rules (leftmost match, alternatives in order,   *)
(* greedy and lazy quantifiers, word boundaries, negative lookahead).      *)
(***************************************************************************)
EXTENDS Integers, Sequences, FiniteSets, TLC

----------------------------------------------------------------------------
(* Characters and character classes                                        *)

Ch(s, i) == SubSeq(s, i, i)

CharsOf(str) == { Ch(str, i) : i \in 1..Len(str) }

LowerLetters == "abcdefghijklmnopqrstuvwxyz"
UpperLetters == "ABCDEFGHIJKLMNOPQRSTUVWXYZ"
DigitChars == "0123456789"

Lowers == CharsOf(LowerLetters)
Uppers == CharsOf(UpperLetters)
Digit == CharsOf(DigitChars)
Letters == Lowers \cup Uppers
\* \w
Word == Letters \cup Digit \cup {"_"}
\* \s
Space == {" ", "\t", "\n", "\r", "\f"}
\* the characters that . does not match
LineTerminators == {"\n", "\r"}

\* U+0060, the template literal quote: a TLA+ string cannot hold it, so the
\* model writes it as a character that no text and no other pattern uses
Backtick == "~"

LowerOf == [c \in Uppers |-> Ch(LowerLetters, CHOOSE i \in 1..26 : Ch(UpperLetters, i) = c)]

LowerCh(c) == IF c \in Uppers THEN LowerOf[c] ELSE c

\* the characters a..b of s in lower case (halving keeps the evaluation shallow)
RECURSIVE LowerRange(_, _, _)
LowerRange(s, a, b) ==
  IF a > b THEN ""
  ELSE IF a = b THEN LowerCh(Ch(s, a))
  ELSE LET m == (a + b) \div 2
       IN LowerRange(s, a, m) \o LowerRange(s, m + 1, b)

toLowerCase(s) == LowerRange(s, 1, Len(s))

----------------------------------------------------------------------------
(* Regular expression syntax trees                                         *)

\* the upper limit of a repetition: none, or n
NoLimit == <<>>
UpTo(n) == <<n>>

Lit(s) == [k |-> "lit", s |-> s]
\* one character of (neg = FALSE) or outside (neg = TRUE) the set cs,
\* repeated between min and max times
Rep(cs, neg, min, max, lazy) ==
  [k |-> "rep", cs |-> cs, neg |-> neg, min |-> min, max |-> max, lazy |-> lazy]
In(cs) == Rep(cs, FALSE, 1, UpTo(1), FALSE)
Star(cs) == Rep(cs, FALSE, 0, NoLimit, FALSE)
Plus(cs) == Rep(cs, FALSE, 1, NoLimit, FALSE)
Maybe(cs) == Rep(cs, FALSE, 0, UpTo(1), FALSE)
Times(cs, n) == Rep(cs, FALSE, n, UpTo(n), FALSE)
AtLeast(cs, n) == Rep(cs, FALSE, n, NoLimit, FALSE)
\* [^...]*
StarNot(cs) == Rep(cs, TRUE, 0, NoLimit, FALSE)
\* .*
DotStar == Rep(LineTerminators, TRUE, 0, NoLimit, FALSE)
\* [\s\S]*?
AnyLazy == Rep({}, TRUE, 0, NoLimit, TRUE)
Cat(xs) == [k |-> "seq", xs |-> xs]
Alt(xs) == [k |-> "alt", xs |-> xs]
\* (a|b|c) over literal alternatives
Words(ws) == Alt([i \in 1..Len(ws) |-> Lit(ws[i])])
\* ( ... )?
Opt(x) == [k |-> "opt", x |-> x]
\* capturing group number n
Grp(n, x) == [k |-> "grp", n |-> n, x |-> x]
GrpEnd(n, st) == [k |-> "end", n |-> n, st |-> st]
\* \b
WB == [k |-> "wb"]
\* (?! ... )
NLA(x) == [k |-> "nla", x |-> x]

\* the tree that matches case-insensitively when run on lower-cased text
RECURSIVE LowerRx(_)
LowerRx(x) ==
  CASE x.k = "lit" -> Lit(toLowerCase(x.s))
    [] x.k = "rep" -> [x EXCEPT !.cs = { LowerCh(c) : c \in x.cs }]
    [] x.k = "seq" -> Cat([i \in 1..Len(x.xs) |-> LowerRx(x.xs[i])])
    [] x.k = "alt" -> Alt([i \in 1..Len(x.xs) |-> LowerRx(x.xs[i])])
    [] x.k = "opt" -> Opt(LowerRx(x.x))
    [] x.k = "grp" -> Grp(x.n, LowerRx(x.x))
    [] x.k = "nla" -> NLA(LowerRx(x.x))
    [] OTHER -> x

----------------------------------------------------------------------------
(* The matcher                                                             *)

NoMatch == [ok |-> FALSE]
\* the captures of the groups 1..3 as <<first, last>> positions; <<1, 0>>: none
NoCaps == << <<1, 0>>, <<1, 0>>, <<1, 0>> >>

IsWordAt(t, i) == i >= 1 /\ i <= Len(t) /\ Ch(t, i) \in Word

\* \b holds between positions i-1 and i
AtWordBoundary(t, i) == IsWordAt(t, i - 1) # IsWordAt(t, i)

InClass(c, x) == (c \in x.cs) # x.neg

\* the first position in a..b whose character is not in the class of x,
\* b + 1 when there is none
RECURSIVE FirstStop(_, _, _, _)
FirstStop(x, t, a, b) ==
  IF a > b THEN b + 1
  ELSE IF a = b THEN (IF InClass(Ch(t, a), x) THEN b + 1 ELSE a)
  ELSE LET m == (a + b) \div 2
           l == FirstStop(x, t, a, m)
       IN IF l <= m THEN l ELSE FirstStop(x, t, m + 1, b)

\* the number of characters from position i on that are in the class of x
Run(x, t, i) == FirstStop(x, t, i, Len(t)) - i

\* the largest number of repetitions of x that fit at position i
MaxRun(x, t, i) ==
  LET n == Run(x, t, i)
  IN IF Len(x.max) = 0 \/ n <= x.max[1] THEN n ELSE x.max[1]

RECURSIVE Match(_, _, _, _)
RECURSIVE TryAlt(_, _, _, _, _, _, _)
RECURSIVE TryRep(_, _, _, _, _, _, _, _)

\* Match(todo, t, i, caps): the first way, in backtracking order, to match
\* the sequence of trees todo on the text t from position i
Match(todo, t, i, caps) ==
  IF Len(todo) = 0 THEN [ok |-> TRUE, e |-> i, caps |-> caps]
  ELSE
    LET x == Head(todo)
        rest == Tail(todo)
    IN CASE x.k = "lit" ->
              IF i + Len(x.s) - 1 <= Len(t) /\ SubSeq(t, i, i + Len(x.s) - 1) = x.s
              THEN Match(rest, t, i + Len(x.s), caps)
              ELSE NoMatch
         [] x.k = "rep" ->
              LET n == MaxRun(x, t, i)
              IN IF n < x.min THEN NoMatch
                 ELSE IF x.lazy THEN TryRep(0, n - x.min, x.min, 1, rest, t, i, caps)
                 ELSE TryRep(0, n - x.min, n, -1, rest, t, i, caps)
         [] x.k = "seq" -> Match(x.xs \o rest, t, i, caps)
         [] x.k = "alt" -> TryAlt(x.xs, 1, Len(x.xs), rest, t, i, caps)
         [] x.k = "opt" ->
              LET r == Match(<<x.x>> \o rest, t, i, caps)
              IN IF r.ok THEN r ELSE Match(rest, t, i, caps)
         [] x.k = "grp" -> Match(<<x.x, GrpEnd(x.n, i)>> \o rest, t, i, caps)
         [] x.k = "end" ->
              Match(rest, t, i, [caps EXCEPT ![x.n] = <<x.st, i - 1>>])
         [] x.k = "wb" ->
              IF AtWordBoundary(t, i) THEN Match(rest, t, i, caps) ELSE NoMatch
         [] x.k = "nla" ->
              IF Match(<<x.x>>, t, i, caps).ok THEN NoMatch
              ELSE Match(rest, t, i, caps)

\* the alternatives xs[lo..hi] in order
TryAlt(xs, lo, hi, rest, t, i, caps) ==
  IF lo > hi THEN NoMatch
  ELSE IF lo = hi THEN Match(<<xs[lo]>> \o rest, t, i, caps)
  ELSE LET m == (lo + hi) \div 2
           r == TryAlt(xs, lo, m, rest, t, i, caps)
       IN IF r.ok THEN r ELSE TryAlt(xs, m + 1, hi, rest, t, i, caps)

\* the repetition counts n + step * k for k = lo..hi, in this order
TryRep(lo, hi, n, step, rest, t, i, caps) ==
  IF lo = hi THEN Match(rest, t, i + n + step * lo, caps)
  ELSE LET m == (lo + hi) \div 2
           r == TryRep(lo, m, n, step, rest, t, i, caps)
       IN IF r.ok THEN r ELSE TryRep(m + 1, hi, n, step, rest, t, i, caps)

\* the match of rx at every position of t
MatchesOf(rx, t) == [k \in 1..(Len(t) + 1) |-> Match(<<rx>>, t, k, NoCaps)]

\* the leftmost match among ms that starts at position from or later
Find(ms, from) ==
  LET starts == { k \in from..Len(ms) : ms[k].ok }
  IN IF starts = {} THEN NoMatch
     ELSE LET k == CHOOSE k \in starts : \A j \in starts : k <= j
          IN [ok |-> TRUE, s |-> k, e |-> ms[k].e, caps |-> ms[k].caps]

----------------------------------------------------------------------------
(* String.prototype.replace and String.prototype.match with a global       *)
(* regular expression                                                      *)

\* a rule { pattern, replacement }; ci: the pattern has the flag i
Rule(rx, ci, str) ==
  [rx |-> IF ci THEN LowerRx(rx) ELSE rx, ci |-> ci, repl |-> <<[g |-> 0, s |-> str]>>]

\* a rule whose replacement uses $1..$3 (g: the group, 0 for plain text)
RuleT(rx, ci, parts) ==
  [rx |-> IF ci THEN LowerRx(rx) ELSE rx, ci |-> ci, repl |-> parts]

\* the text a match is replaced by
RECURSIVE Expand(_, _, _)
Expand(parts, s, caps) ==
  IF Len(parts) = 0 THEN ""
  ELSE LET p == Head(parts)
       IN (IF p.g = 0 THEN p.s ELSE SubSeq(s, caps[p.g][1], caps[p.g][2]))
            \o Expand(Tail(parts), s, caps)

\* s from position from on, with the successive matches among ms replaced
RECURSIVE ReplaceFrom(_, _, _, _)
ReplaceFrom(s, ms, repl, from) ==
  LET m == Find(ms, from)
  IN IF ~m.ok THEN SubSeq(s, from, Len(s))
     ELSE SubSeq(s, from, m.s - 1) \o Expand(repl, s, m.caps) \o
          (IF m.e > m.s THEN ReplaceFrom(s, ms, repl, m.e)
           ELSE IF m.s > Len(s) THEN ""
           ELSE Ch(s, m.s) \o ReplaceFrom(s, ms, repl, m.s + 1))

\* pattern.test(s): the pattern of the rule r has a match in s
test(r, s) == Find(MatchesOf(r.rx, IF r.ci THEN toLowerCase(s) ELSE s), 1).ok

\* a variant of replace that rewrites the lower-cased text when the pattern
\* ignores case
replaceInLowerCase(s, r) ==
  LET t == IF r.ci THEN toLowerCase(s) ELSE s
  IN ReplaceFrom(t, MatchesOf(r.rx, t), r.repl, 1)

\* synthetic.replace(pattern, replacement): the pattern runs on s, lower-cased
\* when it ignores case
replace(s, r) ==
  ReplaceFrom(s, MatchesOf(r.rx, IF r.ci THEN toLowerCase(s) ELSE s), r.repl, 1)

\* patterns.forEach(({ pattern, replacement }) => synthetic = synthetic.replace(...))
\* for the rules lo..hi (comparing the intermediate text with its input makes
\* TLC compute it before it goes on)
RECURSIVE forEachRange(_, _, _, _)
forEachRange(rules, lo, hi, s) ==
  IF lo > hi THEN s
  ELSE IF lo = hi THEN replace(s, rules[lo])
  ELSE LET m == (lo + hi) \div 2
           mid == forEachRange(rules, lo, m, s)
       IN IF mid = s THEN forEachRange(rules, m + 1, hi, s)
          ELSE forEachRange(rules, m + 1, hi, mid)

forEach(rules, s) == forEachRange(rules, 1, Len(rules), s)

\* the number of successive matches among ms from position from on
RECURSIVE CountFrom(_, _)
CountFrom(ms, from) ==
  LET m == Find(ms, from)
  IN IF ~m.ok THEN 0
     ELSE 1 + CountFrom(ms, IF m.e > m.s THEN m.e ELSE m.s + 1)

\* (s.match(pattern) || []).length
matchCount(s, rx, ci) == CountFrom(MatchesOf(rx, IF ci THEN toLowerCase(s) ELSE s), 1)

----------------------------------------------------------------------------
(* The rule catalog of transformCode (components/CodeDiffViewer.tsx)       *)

\* 1. business entities: word -> replacement
businessEntityMap == <<<<"customer", "entity">>, <<"client", "entity">>, <<"user",
  "entity">>, <<"buyer", "entity">>, <<"purchaser", "entity">>, <<"subscriber",
  "entity">>, <<"member", "entity">>, <<"patient", "entity">>, <<"student", "entity">>,
  <<"employee", "entity">>, <<"vendor", "entity">>, <<"supplier", "entity">>,
  <<"partner", "entity">>, <<"order", "operation">>, <<"purchase", "operation">>,
  <<"transaction", "operation">>, <<"sale", "operation">>, <<"payment", "operation">>,
  <<"invoice", "operation">>, <<"billing", "operation">>, <<"prescription",
  "operation">>, <<"enrollment", "operation">>, <<"assignment", "operation">>,
  <<"contract", "operation">>, <<"agreement", "operation">>, <<"appointment",
  "operation">>, <<"reservation", "operation">>, <<"booking", "operation">>,
  <<"product", "resource">>, <<"item", "resource">>, <<"asset", "resource">>,
  <<"inventory", "resource">>, <<"catalog", "resource">>, <<"sku", "resource">>,
  <<"medication", "resource">>, <<"course", "resource">>, <<"project", "resource">>,
  <<"service", "resource">>, <<"subscription", "resource">>, <<"plan", "resource">>,
  <<"account", "record">>, <<"profile", "record">>, <<"document", "record">>, <<"file",
  "record">>, <<"report", "record">>, <<"chart", "record">>, <<"transcript",
  "record">>, <<"history", "record">>, <<"log", "record">>>>

\* new RegExp('\b' + original + '\b', 'gi') with its replacement, per map entry
businessEntityRules ==
  [j \in 1..Len(businessEntityMap) |->
     Rule(Cat(<<WB, Lit(businessEntityMap[j][1]), WB>>), TRUE, businessEntityMap[j][2])]

\* 2. business method names
businessMethods == <<
  Rule(Cat(<<WB, Words(<<"calculate", "compute", "process", "generate", "validate",
      "analyze">>), Words(<<"Tax", "Price", "Rate", "Commission", "Fee", "Cost",
      "Profit", "Revenue", "Discount", "Interest", "Premium", "Salary", "Wage", "Risk",
      "Credit", "Loan", "Mortgage", "Billing", "Payment">>), WB>>), TRUE,
      "computeBusinessValue"),
  Rule(Cat(<<WB, Words(<<"get", "fetch", "retrieve", "load", "find", "search",
      "query">>), Words(<<"Customer", "User", "Order", "Product", "Payment", "Patient",
      "Student", "Employee", "Account", "Profile", "Invoice", "Transaction", "Report",
      "Data">>), WB>>), TRUE, "fetchEntityData"),
  Rule(Cat(<<WB, Words(<<"save", "store", "update", "create", "delete", "modify",
      "edit", "insert", "upsert">>), Words(<<"Customer", "User", "Order", "Product",
      "Payment", "Patient", "Student", "Employee", "Account", "Profile", "Invoice",
      "Transaction", "Record">>), WB>>), TRUE, "persistEntityData"),
  Rule(Cat(<<WB, Words(<<"send", "email", "notify", "alert", "message", "contact",
      "communicate">>), Words(<<"Customer", "User", "Patient", "Student", "Employee",
      "Client", "Vendor">>), WB>>), TRUE, "communicateWithEntity"),
  Rule(Cat(<<WB, Words(<<"validate", "verify", "check", "confirm", "authorize",
      "authenticate">>), Words(<<"Payment", "Transaction", "Order", "Purchase",
      "Account", "Identity", "Credentials", "Access">>), WB>>), TRUE,
      "validateOperation"),
  Rule(Cat(<<WB, Words(<<"process", "handle", "manage", "execute", "perform">>),
      Words(<<"Transaction", "Payment", "Order", "Purchase", "Sale", "Billing",
      "Invoice", "Request", "Operation">>), WB>>), TRUE, "executeBusinessProcess")
>>

\* 3. API paths and URLs
apiPatterns == <<
  Rule(Cat(<<Lit("/api/v"), Plus(Digit), Lit("/"), Plus(Word \cup {"/", "-"})>>),
      FALSE, "/api/v1/generic-endpoint"),
  Rule(Cat(<<Lit("/v"), Plus(Digit), Lit("/"), Plus(Word \cup {"/", "-"})>>), FALSE,
      "/v1/generic-endpoint"),
  Rule(Cat(<<Lit("http"), Maybe({"s"}), Lit("://"), Star(Word \cup {".", "-"}),
      Lit("."), Words(<<"com", "org", "net", "io", "co.uk">>), Star(Word \cup {"/",
      "-"})>>), FALSE, "https://api.example.com/endpoint"),
  Rule(Cat(<<Lit("http"), Maybe({"s"}), Lit("://"), Plus(Word \cup {".", "-"})>>),
      FALSE, "https://service.example.com"),
  Rule(Cat(<<Lit("/"), Star(Word \cup {"/", "-"}), Lit("/"), Words(<<"customers",
      "users", "clients", "members">>), Lit("/"), Star(Word \cup {"/", "-"})>>), TRUE,
      "/api/entities/{id}"),
  Rule(Cat(<<Lit("/"), Star(Word \cup {"/", "-"}), Lit("/"), Words(<<"orders",
      "transactions", "purchases", "sales">>), Lit("/"), Star(Word \cup {"/", "-"})>>),
      TRUE, "/api/operations/{id}"),
  Rule(Cat(<<Lit("/"), Star(Word \cup {"/", "-"}), Lit("/"), Words(<<"products",
      "items", "resources", "assets">>), Lit("/"), Star(Word \cup {"/", "-"})>>), TRUE,
      "/api/resources/{id}"),
  Rule(Cat(<<Lit("/"), Star(Word \cup {"/", "-"}), Lit("/"), Words(<<"accounts",
      "profiles", "records">>), Lit("/"), Star(Word \cup {"/", "-"})>>), TRUE,
      "/api/records/{id}")
>>

\* 4. table names and queries
databasePatterns == <<
  Rule(Cat(<<WB, Words(<<"customers", "users", "clients", "members", "patients",
      "students", "employees", "vendors", "suppliers", "partners">>),
      Opt(Words(<<"_table", "_db", "Table", "DB", "Collection">>)), WB>>), TRUE,
      "entity_table"),
  Rule(Cat(<<WB, Words(<<"orders", "transactions", "purchases", "sales", "payments",
      "invoices", "appointments", "reservations">>), Opt(Words(<<"_table", "_db",
      "Table", "DB", "Collection">>)), WB>>), TRUE, "operation_table"),
  Rule(Cat(<<WB, Words(<<"products", "items", "resources", "assets", "inventory",
      "catalog", "services", "subscriptions">>), Opt(Words(<<"_table", "_db", "Table",
      "DB", "Collection">>)), WB>>), TRUE, "resource_table"),
  Rule(Cat(<<WB, Lit("SELECT "), DotStar, Lit(" FROM "), Plus(Word)>>), TRUE,
      "SELECT data FROM entity_table"),
  Rule(Cat(<<WB, Lit("INSERT INTO "), Plus(Word)>>), TRUE, "INSERT INTO entity_table"),
  Rule(Cat(<<WB, Lit("UPDATE "), Plus(Word), Lit(" SET")>>), TRUE,
      "UPDATE entity_table SET"),
  Rule(Cat(<<WB, Lit("DELETE FROM "), Plus(Word)>>), TRUE, "DELETE FROM entity_table"),
  Rule(Cat(<<WB, Lit("JOIN "), Plus(Word)>>), TRUE, "JOIN entity_table")
>>

\* 5. variable and property names
variablePatterns == <<
  Rule(Cat(<<WB, Star(Word), In({"P", "p"}), Lit("rice"), Star(Word), WB>>), FALSE,
      "valueAmount"),
  Rule(Cat(<<WB, Star(Word), In({"R", "r"}), Lit("ate"), Star(Word), WB>>), FALSE,
      "numericRate"),
  Rule(Cat(<<WB, Star(Word), In({"A", "a"}), Lit("mount"), Star(Word), WB>>), FALSE,
      "numericValue"),
  Rule(Cat(<<WB, Star(Word), In({"C", "c"}), Lit("ost"), Star(Word), WB>>), FALSE,
      "expenseValue"),
  Rule(Cat(<<WB, Star(Word), In({"T", "t"}), Lit("otal"), Star(Word), WB>>), FALSE,
      "aggregateValue"),
  Rule(Cat(<<WB, Star(Word), In({"B", "b"}), Lit("alance"), Star(Word), WB>>), FALSE,
      "accountValue"),
  Rule(Cat(<<WB, Star(Word), In({"S", "s"}), Lit("alary"), Star(Word), WB>>), FALSE,
      "compensationAmount"),
  Rule(Cat(<<WB, Star(Word), In({"W", "w"}), Lit("age"), Star(Word), WB>>), FALSE,
      "compensationAmount"),
  Rule(Cat(<<WB, Star(Word), In({"R", "r"}), Lit("evenue"), Star(Word), WB>>), FALSE,
      "incomeAmount"),
  Rule(Cat(<<WB, Star(Word), In({"P", "p"}), Lit("rofit"), Star(Word), WB>>), FALSE,
      "marginAmount"),
  Rule(Cat(<<WB, Star(Word), In({"D", "d"}), Lit("iscount"), Star(Word), WB>>), FALSE,
      "adjustmentValue"),
  Rule(Cat(<<WB, Star(Word), In({"T", "t"}), Lit("ax"), Star(Word), WB>>), FALSE,
      "feeValue"),
  Rule(Cat(<<WB, Star(Word), In({"C", "c"}), Lit("ommission"), Star(Word), WB>>),
      FALSE, "bonusValue"),
  Rule(Cat(<<WB, Star(Word), In({"I", "i"}), Lit("nvoice"), Star(Word), WB>>), FALSE,
      "documentId"),
  Rule(Cat(<<WB, Star(Word), In({"O", "o"}), Lit("rder"), Star(Word), WB>>), FALSE,
      "operationId"),
  Rule(Cat(<<WB, Star(Word), In({"C", "c"}), Lit("ustomer"), Star(Word), WB>>), FALSE,
      "entityId"),
  Rule(Cat(<<WB, Star(Word), In({"P", "p"}), Lit("roduct"), Star(Word), WB>>), FALSE,
      "resourceId"),
  Rule(Cat(<<WB, Star(Word), In({"A", "a"}), Lit("ccount"), Star(Word), WB>>), FALSE,
      "recordId")
>>

\* 6. class, interface and type names
typePatterns == <<
  RuleT(Cat(<<WB, Grp(1, Words(<<"class", "interface", "type", "enum">>)), Lit(" "),
      Words(<<"Customer", "User", "Client", "Member", "Patient", "Student", "Employee",
      "Vendor", "Supplier">>), Opt(Grp(3, Star(Word)))>>), TRUE, <<[g |-> 1, s |-> ""],
      [g |-> 0, s |-> " Entity"], [g |-> 3, s |-> ""]>>),
  RuleT(Cat(<<WB, Grp(1, Words(<<"class", "interface", "type", "enum">>)), Lit(" "),
      Words(<<"Order", "Transaction", "Purchase", "Sale", "Payment", "Invoice",
      "Appointment">>), Opt(Grp(3, Star(Word)))>>), TRUE, <<[g |-> 1, s |-> ""],
      [g |-> 0, s |-> " Operation"], [g |-> 3, s |-> ""]>>),
  RuleT(Cat(<<WB, Grp(1, Words(<<"class", "interface", "type", "enum">>)), Lit(" "),
      Words(<<"Product", "Item", "Resource", "Asset", "Service", "Subscription">>),
      Opt(Grp(3, Star(Word)))>>), TRUE, <<[g |-> 1, s |-> ""], [g |-> 0,
      s |-> " Resource"], [g |-> 3, s |-> ""]>>),
  RuleT(Cat(<<WB, Words(<<"Customer", "User", "Client", "Member", "Patient", "Student",
      "Employee", "Vendor", "Supplier">>), Grp(2, Words(<<"Service", "Controller",
      "Repository", "Manager", "Handler", "Processor", "Validator", "Factory",
      "Builder">>)), WB>>), TRUE, <<[g |-> 0, s |-> "Entity"], [g |-> 2, s |-> ""]>>),
  RuleT(Cat(<<WB, Words(<<"Order", "Transaction", "Purchase", "Sale", "Payment",
      "Invoice">>), Grp(2, Words(<<"Service", "Controller", "Repository", "Manager",
      "Handler", "Processor", "Validator", "Factory", "Builder">>)), WB>>), TRUE,
      <<[g |-> 0, s |-> "Operation"], [g |-> 2, s |-> ""]>>),
  RuleT(Cat(<<WB, Words(<<"Product", "Item", "Resource", "Asset", "Service">>), Grp(2,
      Words(<<"Service", "Controller", "Repository", "Manager", "Handler", "Processor",
      "Validator", "Factory", "Builder">>)), WB>>), TRUE, <<[g |-> 0,
      s |-> "Resource"], [g |-> 2, s |-> ""]>>)
>>

\* 7. configuration constants and secrets
configPatterns == <<
  Rule(Cat(<<WB, Plus(Uppers \cup {"_"}), Lit("_"), Words(<<"API_KEY", "SECRET",
      "PASSWORD", "TOKEN", "CREDENTIAL", "AUTH", "ACCESS_KEY", "PRIVATE_KEY">>), WB>>),
      FALSE, "API_CREDENTIAL"),
  Rule(Cat(<<WB, Plus(Uppers \cup {"_"}), Lit("_"), Words(<<"URL", "ENDPOINT", "HOST",
      "DOMAIN", "SERVER", "BASE_URL">>), WB>>), FALSE, "SERVICE_ENDPOINT"),
  Rule(Cat(<<WB, Words(<<"STRIPE", "PAYPAL", "AMAZON", "GOOGLE", "FACEBOOK", "TWITTER",
      "LINKEDIN", "SALESFORCE", "HUBSPOT", "ZENDESK">>), Lit("_"),
      Plus(Uppers \cup {"_"}), WB>>), FALSE, "EXTERNAL_SERVICE_KEY"),
  Rule(Cat(<<WB, Words(<<"DATABASE", "DB", "REDIS", "MONGO", "POSTGRES", "MYSQL",
      "ORACLE">>), Lit("_"), Plus(Uppers \cup {"_"}), WB>>), FALSE, "DATABASE_CONFIG"),
  Rule(Cat(<<WB, Words(<<"JWT", "OAuth", "SAML", "LDAP", "OIDC">>), Lit("_"),
      Plus(Uppers \cup {"_"}), WB>>), FALSE, "AUTH_CONFIG"),
  Rule(Cat(<<WB, Star(Uppers \cup {"_"}), Lit("_"), Words(<<"CLIENT_ID",
      "CLIENT_SECRET", "APP_ID", "APP_SECRET">>), WB>>), FALSE, "CLIENT_CREDENTIAL")
>>

\* 8. email, domain, phone, card and SSN
contactPatterns == <<
  Rule(Cat(<<WB, Plus(Word \cup {".", "-"}), Lit("@"), Plus(Word \cup {".", "-"}),
      Lit("."), AtLeast(Lowers \cup Uppers, 2), WB>>), FALSE, "user@example.com"),
  Rule(Cat(<<WB, Plus(Word \cup {".", "-"}), Lit("."), Words(<<"com", "org", "net",
      "io", "co.uk", "edu", "gov", "mil", "app", "dev">>), WB>>), FALSE, "example.com"),
  Rule(Cat(<<WB, Opt(Lit("www.")), Plus(Word \cup {"-"}), Lit("."), Words(<<"com",
      "org", "net", "io">>), WB>>), FALSE, "example.com"),
  Rule(Cat(<<WB, Maybe({"+"}), Maybe({"1"}), Maybe(Space \cup {"-", "."}),
      Maybe({"("}), Times(Digit, 3), Maybe({")"}), Maybe(Space \cup {"-", "."}),
      Times(Digit, 3), Maybe(Space \cup {"-", "."}), Times(Digit, 4), WB>>), FALSE,
      "(555) 123-4567"),
  Rule(Cat(<<WB, Times(Digit, 4), Maybe(Space \cup {"-"}), Times(Digit, 4),
      Maybe(Space \cup {"-"}), Times(Digit, 4), Maybe(Space \cup {"-"}), Times(Digit,
      4), WB>>), FALSE, "1234-5678-9012-3456"),
  Rule(Cat(<<WB, Times(Digit, 3), Lit("-"), Times(Digit, 2), Lit("-"), Times(Digit, 4),
      WB>>), FALSE, "123-45-6789")
>>

\* 9. comments and documentation
commentPatterns == <<
  Rule(Cat(<<Lit("//"), DotStar, Words(<<"business", "proprietary", "confidential",
      "internal", "secret", "private", "company", "client", "customer", "revenue",
      "profit", "competitive", "strategic", "trade secret", "copyright",
      "trademark">>), DotStar>>), TRUE, "// Core application logic"),
  Rule(Cat(<<Lit("/*"), AnyLazy, Words(<<"business", "proprietary", "confidential",
      "internal", "secret", "private", "company", "client", "customer", "revenue",
      "profit", "competitive", "strategic", "trade secret", "copyright",
      "trademark">>), AnyLazy, Lit("*/")>>), TRUE, "/* Implementation details */"),
  Rule(Cat(<<Lit("#"), DotStar, Words(<<"business", "proprietary", "confidential",
      "internal", "secret", "private", "company", "client", "customer", "revenue",
      "profit", "competitive", "strategic", "trade secret", "copyright",
      "trademark">>), DotStar>>), TRUE, "# Core processing logic"),
  Rule(Cat(<<Lit("\"\"\""), AnyLazy, Words(<<"business", "proprietary", "confidential",
      "internal", "secret", "private", "company", "client", "customer", "revenue",
      "profit", "competitive", "strategic">>), AnyLazy, Lit("\"\"\"")>>), TRUE,
      "\"\"\"Generic implementation\"\"\""),
  Rule(Cat(<<Lit("'''"), AnyLazy, Words(<<"business", "proprietary", "confidential",
      "internal", "secret", "private", "company", "client", "customer", "revenue",
      "profit", "competitive", "strategic">>), AnyLazy, Lit("'''")>>), TRUE,
      "'''Generic implementation'''")
>>

\* 10. string literals
stringPatterns == <<
  Rule(Cat(<<Lit("\""), StarNot({"\""}), Words(<<"customer", "client", "order",
      "product", "payment", "invoice", "tax", "price", "cost", "revenue", "profit",
      "business", "company", "proprietary", "confidential", "copyright",
      "trademark">>), StarNot({"\""}), Lit("\"")>>), TRUE, "\"generic_data_value\""),
  Rule(Cat(<<Lit("'"), StarNot({"'"}), Words(<<"customer", "client", "order",
      "product", "payment", "invoice", "tax", "price", "cost", "revenue", "profit",
      "business", "company", "proprietary", "confidential", "copyright",
      "trademark">>), StarNot({"'"}), Lit("'")>>), TRUE, "'generic_data_value'"),
  Rule(Cat(<<Lit(Backtick), StarNot({Backtick}), Words(<<"customer", "client", "order",
      "product", "payment", "invoice", "tax", "price", "cost", "revenue", "profit",
      "business", "company", "proprietary", "confidential", "copyright",
      "trademark">>), StarNot({Backtick}), Lit(Backtick)>>), TRUE,
      Backtick \o "generic_template_value" \o Backtick)
>>

\* 11. parameters and arguments
parameterPatterns == <<
  Rule(Cat(<<WB, Words(<<"customer", "user", "client", "member", "patient", "student",
      "employee">>), Words(<<"Id", "ID", "_id", "_ID", "Identifier">>), WB>>), TRUE,
      "entityIdentifier"),
  Rule(Cat(<<WB, Words(<<"customer", "user", "client", "member", "patient", "student",
      "employee">>), Words(<<"Data", "Info", "Details", "Record", "Object", "Model">>),
      WB>>), TRUE, "entityData"),
  Rule(Cat(<<WB, Words(<<"order", "transaction", "purchase", "sale", "payment",
      "invoice">>), Words(<<"Id", "ID", "_id", "_ID", "Number", "Num">>), WB>>), TRUE,
      "operationIdentifier"),
  Rule(Cat(<<WB, Words(<<"order", "transaction", "purchase", "sale", "payment",
      "invoice">>), Words(<<"Data", "Info", "Details", "Record", "Object", "Model">>),
      WB>>), TRUE, "operationData"),
  Rule(Cat(<<WB, Words(<<"product", "item", "resource", "asset", "service">>),
      Words(<<"Id", "ID", "_id", "_ID", "Code", "SKU">>), WB>>), TRUE,
      "resourceIdentifier"),
  Rule(Cat(<<WB, Words(<<"product", "item", "resource", "asset", "service">>),
      Words(<<"Data", "Info", "Details", "Record", "Object", "Model">>), WB>>), TRUE,
      "resourceData")
>>

\* 12. workflow terms (intensity above 0.6)
workflowPatterns == <<
  Rule(Cat(<<WB, Words(<<"approve", "reject", "cancel", "refund", "void", "authorize",
      "decline">>), Words(<<"Payment", "Transaction", "Order", "Request",
      "Application">>), WB>>), TRUE, "processBusinessRequest"),
  Rule(Cat(<<WB, Words(<<"schedule", "deliver", "ship", "fulfill", "complete",
      "finalize">>), Words(<<"Order", "Product", "Service", "Appointment",
      "Delivery">>), WB>>), TRUE, "executeBusinessOperation"),
  Rule(Cat(<<WB, Words(<<"subscribe", "unsubscribe", "enroll", "unenroll", "register",
      "deregister">>), Words(<<"User", "Customer", "Student", "Member", "Client">>),
      WB>>), TRUE, "updateEntityStatus"),
  Rule(Cat(<<WB, Words(<<"track", "monitor", "log", "audit", "report">>),
      Words(<<"Transaction", "Payment", "Order", "Activity", "Behavior",
      "Performance">>), WB>>), TRUE, "monitorBusinessActivity"),
  Rule(Cat(<<WB, Words(<<"notify", "alert", "remind", "contact">>), Words(<<"Customer",
      "User", "Client", "Member", "Subscriber">>), WB>>), TRUE, "communicateWithEntity")
>>

\* 13. domain vocabulary (intensity above 0.8)
aggressivePatterns == <<
  Rule(Cat(<<WB, Words(<<"roi", "roi_", "return_on_investment", "profit_margin",
      "gross_margin", "net_margin", "ebitda", "ltv", "clv", "lifetime_value",
      "customer_lifetime_value", "arpu", "mrr", "arr">>), WB>>), TRUE,
      "business_metric"),
  Rule(Cat(<<WB, Words(<<"conversion_rate", "churn_rate", "retention_rate",
      "growth_rate", "cac", "customer_acquisition_cost", "cpa",
      "cost_per_acquisition">>), WB>>), TRUE, "performance_metric"),
  Rule(Cat(<<WB, Words(<<"engagement", "bounce_rate", "session_duration", "page_views",
      "click_through_rate", "ctr", "open_rate">>), WB>>), TRUE, "interaction_metric"),
  Rule(Cat(<<WB, Words(<<"prescription", "diagnosis", "treatment", "therapy",
      "medical", "healthcare", "hipaa", "phi", "pii">>), WB>>), TRUE, "regulated_data"),
  Rule(Cat(<<WB, Words(<<"grade", "gpa", "transcript", "enrollment", "tuition",
      "ferpa", "student_record">>), WB>>), TRUE, "academic_data"),
  Rule(Cat(<<WB, Words(<<"trading", "portfolio", "investment", "securities",
      "compliance", "finra", "sec", "aml", "kyc">>), WB>>), TRUE, "financial_data"),
  Rule(Cat(<<WB, Words(<<"lead", "prospect", "opportunity", "pipeline", "forecast",
      "quota", "territory", "commission">>), WB>>), TRUE, "sales_data"),
  Rule(Cat(<<WB, Words(<<"campaign", "segment", "persona", "funnel", "attribution",
      "cohort", "retention">>), WB>>), TRUE, "marketing_data"),
  Rule(Cat(<<WB, Words(<<"inventory", "warehouse", "fulfillment", "logistics",
      "supply_chain", "procurement">>), WB>>), TRUE, "operations_data")
>>

----------------------------------------------------------------------------
(* transformCode: the intensity of a privacy level                         *)

\* const transformations = { paranoid: 0.9, balanced: 0.7, performance: 0.4 },
\* in tenths
transformations == [paranoid |-> 9, balanced |-> 7, performance |-> 4]

\* the names every object inherits from Object.prototype: a lookup of one of
\* them in the object literal finds a function (or, for __proto__, an object)
ObjectPrototypeKeys ==
  {"constructor", "toString", "toLocaleString", "valueOf", "hasOwnProperty",
   "isPrototypeOf", "propertyIsEnumerable", "__proto__", "__defineGetter__",
   "__defineSetter__", "__lookupGetter__", "__lookupSetter__"}

\* a JavaScript value: a number (here in tenths), an object, or undefined
Number(v) == [type |-> "number", v |-> v]
Object == [type |-> "object"]
Undefined == [type |-> "undefined"]

\* transformations[privacyLevel]
lookup(privacyLevel) ==
  IF privacyLevel \in DOMAIN transformations THEN Number(transformations[privacyLevel])
  ELSE IF privacyLevel \in ObjectPrototypeKeys THEN Object
  ELSE Undefined

\* x || y
OrElse(x, y) ==
  IF x.type = "undefined" \/ (x.type = "number" /\ x.v = 0) THEN y ELSE x

\* const intensity = transformations[privacyLevel] || 0.7
intensityOf(privacyLevel) == OrElse(lookup(privacyLevel), Number(7))

\* x > tenths / 10: an object converts to NaN, and NaN > c is false
GreaterThan(x, tenths) == x.type = "number" /\ x.v > tenths

\* if (intensity > 0.6)
workflowActive(x) == GreaterThan(x, 6)

\* a variant of the second condition that repeats the threshold of the first
aggressiveActiveAboveSix(x) == GreaterThan(x, 6)

\* if (intensity > 0.8)
aggressiveActive(x) == GreaterThan(x, 8)

\* the categories in the order transformCode applies them
Categories ==
  <<"businessEntityMap", "businessMethods", "apiPatterns", "databasePatterns",
    "variablePatterns", "typePatterns", "configPatterns", "contactPatterns",
    "commentPatterns", "stringPatterns", "parameterPatterns", "workflowPatterns",
    "aggressivePatterns">>

\* the rules of a category
rulesOf(c) ==
  CASE c = "businessEntityMap" -> businessEntityRules
    [] c = "businessMethods" -> businessMethods
    [] c = "apiPatterns" -> apiPatterns
    [] c = "databasePatterns" -> databasePatterns
    [] c = "variablePatterns" -> variablePatterns
    [] c = "typePatterns" -> typePatterns
    [] c = "configPatterns" -> configPatterns
    [] c = "contactPatterns" -> contactPatterns
    [] c = "commentPatterns" -> commentPatterns
    [] c = "stringPatterns" -> stringPatterns
    [] c = "parameterPatterns" -> parameterPatterns
    [] c = "workflowPatterns" -> workflowPatterns
    [] c = "aggressivePatterns" -> aggressivePatterns

\* whether transformCode applies the category at the intensity x
isActive(c, x) ==
  CASE c = "workflowPatterns" -> workflowActive(x)
    [] c = "aggressivePatterns" -> aggressiveActive(x)
    [] OTHER -> TRUE

\* the buffer after the categories j..13, from the buffer s
RECURSIVE applyFrom(_, _, _)
applyFrom(j, s, x) ==
  IF j > Len(Categories) THEN s
  ELSE LET next == IF isActive(Categories[j], x) THEN forEach(rulesOf(Categories[j]), s)
                   ELSE s
       IN IF next = s THEN applyFrom(j + 1, s, x) ELSE applyFrom(j + 1, next, x)

\* transformCode(originalCode, language, privacyLevel); language is not used
transformCode(originalCode, privacyLevel) ==
  applyFrom(1, originalCode, intensityOf(privacyLevel))

----------------------------------------------------------------------------
(* The detectors of calculateSecurityMetrics (components/CodeDiffViewer.tsx) *)

businessTermsPattern == LowerRx(Cat(<<WB, Words(<<"customer", "client", "user",
  "buyer", "purchaser", "subscriber", "member", "patient", "student", "employee",
  "vendor", "supplier", "partner", "order", "purchase", "transaction", "sale",
  "payment", "invoice", "billing", "prescription", "enrollment", "assignment",
  "contract", "agreement", "appointment", "reservation", "booking", "product", "item",
  "asset", "inventory", "catalog", "sku", "medication", "course", "project", "service",
  "subscription", "plan", "account", "profile", "document", "file", "report", "chart",
  "transcript", "history", "log", "calculate", "compute", "process", "generate",
  "validate", "analyze", "get", "fetch", "retrieve", "load", "find", "search", "query",
  "save", "store", "update", "create", "delete", "modify", "edit", "insert", "upsert",
  "send", "email", "notify", "alert", "message", "contact", "communicate", "price",
  "rate", "amount", "cost", "total", "balance", "salary", "wage", "revenue", "profit",
  "discount", "tax", "commission", "invoice", "roi", "profit_margin",
  "conversion_rate", "churn_rate", "ltv", "business", "company", "proprietary",
  "confidential", "internal", "secret", "private", "copyright", "trademark",
  "competitive", "strategic">>), WB>>))

urlsInOriginalPattern == Cat(<<Lit("http"), Maybe({"s"}), Lit("://"), Plus(Word \cup {".",
  "-"})>>)

urlsInSyntheticPattern == Cat(<<Lit("http"), Maybe({"s"}), Lit("://"),
  NLA(Words(<<"api.example.com", "service.example.com", "example.com">>)),
  Plus(Word \cup {".", "-"})>>)

apiEndpointsInOriginalPattern == Alt(<<Cat(<<Lit("/api/v"), Plus(Digit), Lit("/"),
  Plus(Word \cup {"/", "-"})>>), Cat(<<Lit("/v"), Plus(Digit), Lit("/"),
  Plus(Word \cup {"/", "-"})>>)>>)

apiEndpointsInSyntheticPattern == Alt(<<Cat(<<Lit("/api/v"), Plus(Digit), Lit("/"),
  NLA(Words(<<"generic-endpoint", "endpoint">>)), Plus(Word \cup {"/", "-"})>>),
  Cat(<<Lit("/v"), Plus(Digit), Lit("/"), NLA(Words(<<"generic-endpoint",
  "endpoint">>)), Plus(Word \cup {"/", "-"})>>)>>)

sensitiveInOriginalPattern == Alt(<<Cat(<<Plus(Word \cup {".", "-"}), Lit("@"),
  Plus(Word \cup {".", "-"}), Lit("."), AtLeast(Lowers \cup Uppers, 2)>>),
  Cat(<<Plus(Uppers \cup {"_"}), Lit("_"), Words(<<"API_KEY", "SECRET", "TOKEN",
  "CREDENTIAL", "AUTH", "ACCESS_KEY", "PRIVATE_KEY">>)>>),
  Cat(<<Plus(Uppers \cup {"_"}), Lit("_"), Words(<<"URL", "ENDPOINT", "HOST", "DOMAIN",
  "SERVER">>)>>)>>)

sensitiveInSyntheticPattern == Alt(<<Cat(<<NLA(Lit("user@example.com")),
  Plus(Word \cup {".", "-"}), Lit("@"), Plus(Word \cup {".", "-"}), Lit("."),
  AtLeast(Lowers \cup Uppers, 2)>>), Cat(<<NLA(Words(<<"API_CREDENTIAL",
  "EXTERNAL_SERVICE_KEY", "DATABASE_CONFIG", "AUTH_CONFIG", "CLIENT_CREDENTIAL">>)),
  Plus(Uppers \cup {"_"}), Lit("_"), Words(<<"API_KEY", "SECRET", "TOKEN",
  "CREDENTIAL", "AUTH", "ACCESS_KEY", "PRIVATE_KEY">>)>>),
  Cat(<<NLA(Lit("SERVICE_ENDPOINT")), Plus(Uppers \cup {"_"}), Lit("_"), Words(<<"URL",
  "ENDPOINT", "HOST", "DOMAIN", "SERVER">>)>>)>>)

methodsPattern == LowerRx(Cat(<<WB, Words(<<"calculate", "compute", "process",
  "generate", "validate", "analyze">>), Words(<<"Tax", "Price", "Rate", "Commission",
  "Fee", "Cost", "Profit", "Revenue", "Discount", "Interest", "Premium", "Salary",
  "Wage", "Risk", "Credit", "Loan", "Mortgage", "Billing", "Payment">>), WB>>))

classesPattern == LowerRx(Cat(<<WB, Words(<<"class", "interface", "type",
  "enum">>), Lit(" "), Words(<<"Customer", "User", "Client", "Member", "Patient",
  "Student", "Employee", "Vendor", "Supplier", "Order", "Transaction", "Purchase",
  "Sale", "Payment", "Invoice", "Product", "Item", "Resource", "Asset", "Service">>),
  Star(Word)>>))

----------------------------------------------------------------------------
(* calculateSecurityMetrics; fractions are pairs <<numerator, denominator>> *)

\* a variant of rate that ignores the fallback: no occurrence counts as a
\* rate of zero
rateWithoutFallback(before, after, fallback) ==
  IF before > 0
  THEN (IF after >= before THEN <<0, 1>> ELSE <<before - after, before>>)
  ELSE <<0, 1>>

\* a variant of rate with the fallback 1 for every family
rateWithOneFallback(before, after, fallback) ==
  IF before > 0
  THEN (IF after >= before THEN <<0, 1>> ELSE <<before - after, before>>)
  ELSE <<1, 1>>

\* a variant of rate without Math.max: more occurrences after than before
\* give a rate below zero
rateWithoutMax(before, after, fallback) ==
  IF before > 0 THEN <<before - after, before>> ELSE fallback

\* count > 0 ? Math.max(0, 1 - after / before) : fallback
rate(before, after, fallback) ==
  IF before > 0
  THEN (IF after >= before THEN <<0, 1>> ELSE <<before - after, before>>)
  ELSE fallback

\* the fallback of the business terms, 0.5, and of every other family, 1
businessFallback == <<1, 2>>
otherFallback == <<1, 1>>

\* the weights of the six families, in hundredths
weights == <<30, 20, 20, 15, 10, 5>>

RECURSIVE Product(_, _)
Product(rs, j) == IF j > Len(rs) THEN 1 ELSE rs[j][2] * Product(rs, j + 1)

RECURSIVE WeightedSum(_, _, _)
WeightedSum(rs, j, p) ==
  IF j > Len(rs) THEN 0
  ELSE weights[j] * rs[j][1] * (p \div rs[j][2]) + WeightedSum(rs, j + 1, p)

\* avgTransformationRate: the weighted sum of the six rates
avgTransformationRate(rs) ==
  LET p == Product(rs, 1) IN <<WeightedSum(rs, 1, p), 100 * p>>

\* Math.round(n / d), d > 0: the nearest integer, a half rounded up
round(n, d) == (2 * n + d) \div (2 * d)

\* Math.round(Math.min(cap, base + rate * span))
roundMin(cap, base, span, r) ==
  IF (base - cap) * r[2] + span * r[1] >= 0 THEN cap
  ELSE round(base * r[2] + span * r[1], r[2])

\* a variant of roundMax that adds the share of the rate to the base
roundMaxRising(floor, base, span, r) ==
  round(base * r[2] + span * r[1], r[2])

\* Math.round(Math.max(floor, base - rate * span))
roundMax(floor, base, span, r) ==
  IF (base - floor) * r[2] - span * r[1] <= 0 THEN floor
  ELSE round(base * r[2] - span * r[1], r[2])

\* Math.round(Math.min(99, 94 + Math.random() * 5 - structuralChanges * 8)) with
\* structuralChanges = Math.abs(originalLength - syntheticLength) / originalLength
\* and Math.random() = random / RandomSteps; 0 / 0 is NaN and n / 0 is Infinity
aiParityOf(originalLength, syntheticLength, random, steps) ==
  LET diff == IF originalLength >= syntheticLength
              THEN originalLength - syntheticLength
              ELSE syntheticLength - originalLength
      d == steps * originalLength
      n == 94 * d + 5 * random * originalLength - 8 * diff * steps
  IN IF originalLength = 0
     THEN (IF diff = 0 THEN [type |-> "NaN"] ELSE [type |-> "-Infinity"])
     ELSE [type |-> "number", v |-> IF n >= 99 * d THEN 99 ELSE round(n, d)]

\* a variant of complianceReadyOf that looks at the composite rate alone
complianceReadyOfRateOnly(r, businessTermsInOriginal, businessTermsInSynthetic) ==
  10 * r[1] > 4 * r[2]

\* avgTransformationRate > 0.4 ||
\*   (businessTermsInOriginal > 0 && businessTermsInSynthetic < businessTermsInOriginal * 0.3)
complianceReadyOf(r, businessTermsInOriginal, businessTermsInSynthetic) ==
  \/ 10 * r[1] > 4 * r[2]
  \/ /\ businessTermsInOriginal > 0
     /\ 10 * businessTermsInSynthetic < 3 * businessTermsInOriginal

\* the occurrences of each of the six families in the original and in the
\* synthetic text, as pairs <<inOriginal, inSynthetic>>
familyCounts(original, synthetic) ==
  <<<<matchCount(original, businessTermsPattern, TRUE),
      matchCount(synthetic, businessTermsPattern, TRUE)>>,
    <<matchCount(original, urlsInOriginalPattern, FALSE),
      matchCount(synthetic, urlsInSyntheticPattern, FALSE)>>,
    <<matchCount(original, apiEndpointsInOriginalPattern, FALSE),
      matchCount(synthetic, apiEndpointsInSyntheticPattern, FALSE)>>,
    <<matchCount(original, sensitiveInOriginalPattern, FALSE),
      matchCount(synthetic, sensitiveInSyntheticPattern, FALSE)>>,
    <<matchCount(original, methodsPattern, TRUE),
      matchCount(synthetic, methodsPattern, TRUE)>>,
    <<matchCount(original, classesPattern, TRUE),
      matchCount(synthetic, classesPattern, TRUE)>>>>

\* the transformation rate of each family
transformationRates(counts) ==
  [j \in 1..6 |-> rate(counts[j][1], counts[j][2],
                       IF j = 1 THEN businessFallback ELSE otherFallback)]

calculateSecurityMetrics(original, synthetic, random, steps) ==
  LET counts == familyCounts(original, synthetic)
      businessTermsInOriginal == counts[1][1]
      businessTermsInSynthetic == counts[1][2]
      urlsInOriginal == counts[2][1]
      urlsInSynthetic == counts[2][2]
      apiEndpointsInOriginal == counts[3][1]
      apiEndpointsInSynthetic == counts[3][2]
      sensitiveInOriginal == counts[4][1]
      sensitiveInSynthetic == counts[4][2]
      r == avgTransformationRate(transformationRates(counts))
  IN [privacyScore |-> roundMin(98, 65, 33, r),
      leakageRisk |-> roundMax(1, 35, 34, r),
      competitiveRisk |-> roundMax(1, 25, 24, r),
      aiParity |-> aiParityOf(Len(original), Len(synthetic), random, steps),
      complianceReady |-> complianceReadyOf(r, businessTermsInOriginal,
                                            businessTermsInSynthetic),
      transformationDetails |->
        [businessTermsReduced |-> businessTermsInOriginal - businessTermsInSynthetic,
         urlsAnonymized |-> urlsInOriginal - urlsInSynthetic,
         apiEndpointsGeneralized |-> apiEndpointsInOriginal - apiEndpointsInSynthetic,
         sensitiveDataObfuscated |-> sensitiveInOriginal - sensitiveInSynthetic,
         overallTransformationRate |-> round(100 * r[1], r[2])]]

----------------------------------------------------------------------------
(* transformCode of App.tsx: the same intensity, then replacements written *)
(* inline, the last two groups behind the conditions on the intensity     *)

\* the replacements 1 to 13, applied at every intensity
AppBaseRules == <<
  Rule(Cat(<<WB, Words(<<"customer", "client", "user", "buyer", "purchaser",
      "subscriber", "member", "patient", "student", "employee", "vendor",
      "supplier">>), WB>>), TRUE, "entity"),
  Rule(Cat(<<WB, Words(<<"order", "purchase", "transaction", "sale", "payment",
      "invoice", "billing", "prescription", "enrollment", "assignment", "contract",
      "agreement">>), WB>>), TRUE, "operation"),
  Rule(Cat(<<WB, Words(<<"product", "item", "asset", "inventory", "catalog", "sku",
      "medication", "course", "project", "service", "resource">>), WB>>), TRUE,
      "resource"),
  Rule(Cat(<<WB, Words(<<"account", "profile", "record", "document", "file", "report",
      "chart", "transcript">>), WB>>), TRUE, "record"),
  Rule(Cat(<<WB, Words(<<"calculate", "compute", "process", "generate", "validate",
      "analyze">>), Words(<<"Tax", "Price", "Rate", "Commission", "Fee", "Cost",
      "Profit", "Revenue", "Discount", "Interest", "Premium", "Salary", "Wage", "Risk",
      "Credit", "Loan", "Mortgage">>), WB>>), TRUE, "computeValue"),
  Rule(Cat(<<WB, Words(<<"get", "fetch", "retrieve", "load", "find", "search">>),
      Words(<<"Customer", "User", "Order", "Product", "Payment", "Patient", "Student",
      "Employee", "Account", "Profile", "Invoice", "Transaction">>), WB>>), TRUE,
      "getEntity"),
  Rule(Cat(<<WB, Words(<<"save", "store", "update", "create", "delete", "modify",
      "edit">>), Words(<<"Customer", "User", "Order", "Product", "Payment", "Patient",
      "Student", "Employee", "Account", "Profile", "Invoice", "Transaction">>), WB>>),
      TRUE, "saveEntity"),
  Rule(Cat(<<WB, Words(<<"send", "email", "notify", "alert", "message">>),
      Words(<<"Customer", "User", "Patient", "Student", "Employee">>), WB>>), TRUE,
      "notifyEntity"),
  Rule(Cat(<<Lit("/api/v"), Plus(Digit), Lit("/"), Plus(Word \cup {"/", "-"})>>),
      FALSE, "/api/v1/endpoint"),
  Rule(Cat(<<Lit("/v"), Plus(Digit), Lit("/"), Plus(Word \cup {"/", "-"})>>), FALSE,
      "/v1/endpoint"),
  Rule(Cat(<<Lit("http"), Maybe({"s"}), Lit("://"), Plus(Word \cup {".", "-"}),
      Lit(".com"), Star(Word \cup {"/", "-"})>>), FALSE, "https://api.example.com"),
  Rule(Cat(<<Lit("http"), Maybe({"s"}), Lit("://"), Plus(Word \cup {".", "-"})>>),
      FALSE, "https://service.example.com"),
  Rule(Cat(<<Lit("/"), Star(Word \cup {"/", "-"}), Lit("/customers/"),
      Star(Word \cup {"/", "-"})>>), TRUE, "/endpoint/entities/id"),
  Rule(Cat(<<Lit("/"), Star(Word \cup {"/", "-"}), Lit("/orders/"),
      Star(Word \cup {"/", "-"})>>), TRUE, "/endpoint/operations/id"),
  Rule(Cat(<<Lit("/"), Star(Word \cup {"/", "-"}), Lit("/products/"),
      Star(Word \cup {"/", "-"})>>), TRUE, "/endpoint/resources/id"),
  Rule(Cat(<<WB, Words(<<"customers", "users", "orders", "products", "payments",
      "invoices", "accounts", "patients", "students", "employees", "vendors",
      "suppliers">>), Opt(Words(<<"_table", "_db", "Table", "DB">>)), WB>>), TRUE,
      "entities_table"),
  Rule(Cat(<<WB, Lit("SELECT * FROM "), Plus(Word)>>), TRUE,
      "SELECT * FROM entity_table"),
  Rule(Cat(<<WB, Lit("INSERT INTO "), Plus(Word)>>), TRUE, "INSERT INTO entity_table"),
  Rule(Cat(<<WB, Lit("UPDATE "), Plus(Word), Lit(" SET")>>), TRUE,
      "UPDATE entity_table SET"),
  Rule(Cat(<<WB, Lit("DELETE FROM "), Plus(Word)>>), TRUE, "DELETE FROM entity_table"),
  Rule(Cat(<<WB, Star(Word), In({"P", "p"}), Lit("rice"), Star(Word), WB>>), FALSE,
      "valueAmount"),
  Rule(Cat(<<WB, Star(Word), In({"R", "r"}), Lit("ate"), Star(Word), WB>>), FALSE,
      "rateValue"),
  Rule(Cat(<<WB, Star(Word), In({"A", "a"}), Lit("mount"), Star(Word), WB>>), FALSE,
      "numericValue"),
  Rule(Cat(<<WB, Star(Word), In({"C", "c"}), Lit("ost"), Star(Word), WB>>), FALSE,
      "costValue"),
  Rule(Cat(<<WB, Star(Word), In({"T", "t"}), Lit("otal"), Star(Word), WB>>), FALSE,
      "totalValue"),
  Rule(Cat(<<WB, Star(Word), In({"B", "b"}), Lit("alance"), Star(Word), WB>>), FALSE,
      "balanceValue"),
  Rule(Cat(<<WB, Star(Word), In({"S", "s"}), Lit("alary"), Star(Word), WB>>), FALSE,
      "compensationValue"),
  Rule(Cat(<<WB, Star(Word), In({"W", "w"}), Lit("age"), Star(Word), WB>>), FALSE,
      "compensationValue"),
  Rule(Cat(<<WB, Star(Word), In({"R", "r"}), Lit("evenue"), Star(Word), WB>>), FALSE,
      "incomeValue"),
  Rule(Cat(<<WB, Star(Word), In({"P", "p"}), Lit("rofit"), Star(Word), WB>>), FALSE,
      "marginValue"),
  RuleT(Cat(<<WB, Lit("class "), Words(<<"Customer", "User", "Order", "Product",
      "Payment", "Invoice", "Patient", "Student", "Employee", "Account", "Profile",
      "Vendor", "Supplier">>), Opt(Grp(2, Star(Word)))>>), TRUE, <<[g |-> 0,
      s |-> "class Entity"], [g |-> 2, s |-> ""]>>),
  RuleT(Cat(<<WB, Lit("interface "), Words(<<"Customer", "User", "Order", "Product",
      "Payment", "Invoice", "Patient", "Student", "Employee", "Account", "Profile",
      "Vendor", "Supplier">>), Opt(Grp(2, Star(Word)))>>), TRUE, <<[g |-> 0,
      s |-> "interface Entity"], [g |-> 2, s |-> ""]>>),
  RuleT(Cat(<<WB, Words(<<"Customer", "User", "Order", "Product", "Payment", "Invoice",
      "Patient", "Student", "Employee", "Account", "Profile", "Vendor", "Supplier">>),
      Grp(2, Words(<<"Service", "Controller", "Repository", "Manager", "Handler",
      "Processor", "Validator">>)), WB>>), TRUE, <<[g |-> 0, s |-> "Entity"], [g |-> 2,
      s |-> ""]>>),
  Rule(Cat(<<WB, Plus(Uppers \cup {"_"}), Lit("_"), Words(<<"API_KEY", "SECRET",
      "PASSWORD", "TOKEN", "CREDENTIAL">>), WB>>), FALSE, "API_KEY"),
  Rule(Cat(<<WB, Plus(Uppers \cup {"_"}), Lit("_"), Words(<<"URL", "ENDPOINT", "HOST",
      "DOMAIN">>), WB>>), FALSE, "SERVICE_URL"),
  Rule(Cat(<<WB, Words(<<"STRIPE", "PAYPAL", "AMAZON", "GOOGLE", "FACEBOOK", "TWITTER",
      "LINKEDIN">>), Lit("_"), Plus(Uppers \cup {"_"}), WB>>), FALSE,
      "EXTERNAL_SERVICE_KEY"),
  Rule(Cat(<<WB, Words(<<"DATABASE", "DB", "REDIS", "MONGO">>), Lit("_"),
      Plus(Uppers \cup {"_"}), WB>>), FALSE, "DATABASE_CONFIG"),
  Rule(Cat(<<WB, Plus(Word \cup {".", "-"}), Lit("@"), Plus(Word \cup {".", "-"}),
      Lit("."), AtLeast(Lowers \cup Uppers, 2), WB>>), FALSE, "user@example.com"),
  Rule(Cat(<<WB, Plus(Word \cup {".", "-"}), Lit("."), Words(<<"com", "org", "net",
      "io", "co.uk", "edu", "gov", "mil">>), WB>>), FALSE, "example.com"),
  Rule(Cat(<<WB, Opt(Lit("www.")), Plus(Word \cup {"-"}), Lit("."), Words(<<"com",
      "org", "net", "io">>), WB>>), FALSE, "example.com"),
  Rule(Cat(<<WB, Times(Digit, 3), Lit("-"), Times(Digit, 3), Lit("-"), Times(Digit, 4),
      WB>>), FALSE, "123-456-7890"),
  Rule(Cat(<<WB, Lit("("), Times(Digit, 3), Lit(") "), Times(Digit, 3), Lit("-"),
      Times(Digit, 4), WB>>), FALSE, "(123) 456-7890"),
  Rule(Cat(<<WB, AtLeast(Digit, 10), WB>>), FALSE, "1234567890"),
  Rule(Cat(<<WB, Times(Digit, 4), Lit("-"), Times(Digit, 4), Lit("-"), Times(Digit, 4),
      Lit("-"), Times(Digit, 4), WB>>), FALSE, "1234-5678-9012-3456"),
  Rule(Cat(<<Lit("// "), DotStar, Words(<<"business", "proprietary", "confidential",
      "internal", "secret", "private", "company", "client", "customer", "revenue",
      "profit", "competitive", "strategic">>), DotStar>>), TRUE,
      "// Core application logic"),
  Rule(Cat(<<Lit("/* "), DotStar, Words(<<"business", "proprietary", "confidential",
      "internal", "secret", "private", "company", "client", "customer", "revenue",
      "profit", "competitive", "strategic">>), DotStar, Lit(" */")>>), TRUE,
      "/* Implementation details */"),
  Rule(Cat(<<Lit("# "), DotStar, Words(<<"business", "proprietary", "confidential",
      "internal", "secret", "private", "company", "client", "customer", "revenue",
      "profit", "competitive", "strategic">>), DotStar>>), TRUE,
      "# Core processing logic"),
  Rule(Cat(<<Lit("\""), StarNot({"\""}), Words(<<"customer", "client", "order",
      "product", "payment", "invoice", "tax", "price", "cost", "revenue", "profit",
      "business", "company", "proprietary">>), StarNot({"\""}), Lit("\"")>>), TRUE,
      "\"entity_operation_data\""),
  Rule(Cat(<<Lit("'"), StarNot({"'"}), Words(<<"customer", "client", "order",
      "product", "payment", "invoice", "tax", "price", "cost", "revenue", "profit",
      "business", "company", "proprietary">>), StarNot({"'"}), Lit("'")>>), TRUE,
      "'entity_operation_data'"),
  Rule(Cat(<<WB, Words(<<"customer", "user", "order", "product", "payment", "invoice",
      "patient", "student", "employee">>), Words(<<"Id", "ID", "_id", "_ID">>), WB>>),
      TRUE, "entityId"),
  Rule(Cat(<<WB, Words(<<"customer", "user", "order", "product", "payment", "invoice",
      "patient", "student", "employee">>), Words(<<"Data", "Info", "Details",
      "Record">>), WB>>), TRUE, "entityData"),
  Rule(Cat(<<Lit("WHERE "), Words(<<"customer", "user", "order", "product", "payment",
      "invoice", "patient", "student", "employee">>), Words(<<"_id", "_ID", "Id",
      "ID">>)>>), TRUE, "WHERE entity_id"),
  Rule(Cat(<<Lit("JOIN "), Words(<<"customers", "users", "orders", "products",
      "payments", "invoices", "patients", "students", "employees">>)>>), TRUE,
      "JOIN entities"),
  Rule(Cat(<<Lit("FROM "), Words(<<"customers", "users", "orders", "products",
      "payments", "invoices", "patients", "students", "employees">>)>>), TRUE,
      "FROM entities")
>>

\* 14: if (intensity > 0.6)
AppBusinessLogicRules == <<
  Rule(Cat(<<WB, Words(<<"process", "handle", "manage", "execute">>),
      Words(<<"Transaction", "Payment", "Order", "Purchase", "Sale", "Billing",
      "Invoice">>), WB>>), TRUE, "processOperation"),
  Rule(Cat(<<WB, Words(<<"validate", "verify", "check", "confirm", "authorize">>),
      Words(<<"Payment", "Transaction", "Order", "Purchase", "Account", "Identity">>),
      WB>>), TRUE, "validateEntity"),
  Rule(Cat(<<WB, Words(<<"send", "receive", "transmit">>), Words(<<"Payment",
      "Invoice", "Order", "Notification", "Email", "Message">>), WB>>), TRUE,
      "transferData"),
  Rule(Cat(<<WB, Words(<<"track", "monitor", "log", "audit">>), Words(<<"Transaction",
      "Payment", "Order", "Activity", "Behavior">>), WB>>), TRUE, "monitorActivity")
>>

\* 15: if (intensity > 0.8)
AppAggressiveRules == <<
  Rule(Cat(<<WB, Words(<<"approve", "reject", "cancel", "refund", "void">>),
      Words(<<"Payment", "Transaction", "Order", "Request">>), WB>>), TRUE,
      "processRequest"),
  Rule(Cat(<<WB, Words(<<"schedule", "deliver", "ship", "fulfill">>), Words(<<"Order",
      "Product", "Service", "Appointment">>), WB>>), TRUE, "executeOperation"),
  Rule(Cat(<<WB, Words(<<"subscribe", "unsubscribe", "enroll", "unenroll">>),
      Words(<<"User", "Customer", "Student", "Member">>), WB>>), TRUE,
      "updateEntityStatus"),
  Rule(Cat(<<WB, Words(<<"roi", "roi_", "return_on_investment", "profit_margin",
      "gross_margin", "net_margin">>), WB>>), TRUE, "business_metric"),
  Rule(Cat(<<WB, Words(<<"conversion_rate", "churn_rate", "retention_rate",
      "growth_rate">>), WB>>), TRUE, "performance_metric"),
  Rule(Cat(<<WB, Words(<<"ltv", "clv", "lifetime_value", "customer_lifetime_value">>),
      WB>>), TRUE, "value_metric")
>>
----------------------------------------------------------------------------
(* One submission after the other: handleCodeTransformation runs           *)
(* transformCode, category by category, and then calculateSecurityMetrics; *)
(* the result may be submitted again at the same privacy level.            *)

VARIABLES originalCode, sourceType, privacyLevel, intensity, synthetic, applied, pc,
          pass, metrics, codeData, activeTab, isTransforming, originalIndex,
          syntheticIndex, diff

vars ==
  <<originalCode, sourceType, privacyLevel, intensity, synthetic, applied, pc, pass,
    metrics, codeData, activeTab, isTransforming, originalIndex, syntheticIndex, diff>>

\* the number of successive submissions of a text and of its results
MaxPasses == 2
\* Math.random() is one of 0 / RandomSteps .. (RandomSteps - 1) / RandomSteps
RandomSteps == 3

ScenarioA ==
  "function getCustomerData(customerId) { return fetch('https://api.stripe.com/v1/customers/' + customerId); }"
ScenarioB == "function add(a, b) { return a + b; }"

\* the texts submitted
Texts ==
  {ScenarioA, ScenarioB, "", "salary", "http://foo.bar", "alice@acme.com",
   "// proprietary risk model", "refundOrder(roi)", "alice@acme.com_2024", "// strategic plan",
   "get alice@acme.com", "ROI", "// customer list",
   "CustomerService"}

\* the privacy levels submitted: the three of the form, and other strings
PrivacyLevels == {"paranoid", "balanced", "performance", "", "strict", "constructor"}

\* what is submitted in the place of a text: typeof gives "string" for a text;
\* null and undefined are the values that are no text
SourceTypes == {"string", "null", "undefined"}

\* a variant of throwsTypeError in which no call throws
throwsNever(type) == FALSE

\* a variant of throwsTypeError in which undefined is read as the empty text
throwsOnNullOnly(type) == type = "null"

\* synthetic.replace(...) and original.length throw a TypeError when the value
\* is null or undefined
throwsTypeError(type) == type \in {"null", "undefined"}

\* no metrics computed yet
NoMetrics == [type |-> "none"]

\* useKV("codeData", null): nothing stored
NoCodeData == [type |-> "null"]

\* const newCodeData = { original, synthetic, language, securityMetrics }
CodeData(original, syntheticCode, securityMetrics) ==
  [type |-> "CodeData", original |-> original, synthetic |-> syntheticCode,
   securityMetrics |-> securityMetrics]

\* the state of App and the variables of generateDiff: the run of transformCode
\* and of calculateSecurityMetrics below does not read them, and leaves them
\* as they are; what a call does to the state of App is in SpecUI
otherVars == <<codeData, activeTab, isTransforming, originalIndex, syntheticIndex, diff>>

\* originalCode holds the text when sourceType is "string"; it is not read
\* otherwise
Init ==
  /\ sourceType \in SourceTypes
  /\ IF sourceType = "string" THEN originalCode \in Texts ELSE originalCode = ""
  /\ privacyLevel \in PrivacyLevels
  /\ intensity = Undefined
  /\ synthetic = ""
  /\ applied = {}
  /\ pc = "intensity"
  /\ pass = 1
  /\ metrics = NoMetrics
  /\ codeData = NoCodeData
  /\ activeTab = "input"
  /\ isTransforming = FALSE
  /\ originalIndex = 0
  /\ syntheticIndex = 0
  /\ diff = <<>>

\* a variant of after that passes over typePatterns
afterSkippingTypes(c) ==
  IF c = "variablePatterns" THEN "configPatterns"
  ELSE LET j == CHOOSE j \in 1..Len(Categories) : Categories[j] = c
       IN IF j = Len(Categories) THEN "return" ELSE Categories[j + 1]

\* the position after the category c
after(c) ==
  LET j == CHOOSE j \in 1..Len(Categories) : Categories[j] = c
  IN IF j = Len(Categories) THEN "return" ELSE Categories[j + 1]

\* const intensity = ...; let synthetic = originalCode
ResolveIntensity ==
  /\ pc = "intensity"
  /\ intensity' = intensityOf(privacyLevel)
  /\ synthetic' = originalCode
  /\ pc' = Categories[1]
  /\ UNCHANGED <<originalCode, sourceType, privacyLevel, applied, pass, metrics,
                 otherVars>>

\* the step of the category c: its rules in order when the category is active;
\* the TypeError of a replace on no text rejects the promise of transformCode,
\* and handleCodeTransformation catches it and logs it
Apply(c) ==
  /\ IF isActive(c, intensity) /\ throwsTypeError(sourceType)
     THEN /\ pc' = "rejected"
          /\ UNCHANGED <<synthetic, applied>>
     ELSE /\ IF isActive(c, intensity)
             THEN /\ synthetic' = forEach(rulesOf(c), synthetic)
                  /\ applied' = applied \cup {c}
             ELSE UNCHANGED <<synthetic, applied>>
          /\ pc' = after(c)
  /\ UNCHANGED <<originalCode, sourceType, privacyLevel, intensity, pass, metrics,
                 otherVars>>

ApplyBusinessEntityMap ==
  /\ pc = "businessEntityMap"
  /\ Apply("businessEntityMap")

ApplyBusinessMethods ==
  /\ pc = "businessMethods"
  /\ Apply("businessMethods")

ApplyApiPatterns ==
  /\ pc = "apiPatterns"
  /\ Apply("apiPatterns")

ApplyDatabasePatterns ==
  /\ pc = "databasePatterns"
  /\ Apply("databasePatterns")

ApplyVariablePatterns ==
  /\ pc = "variablePatterns"
  /\ Apply("variablePatterns")

ApplyTypePatterns ==
  /\ pc = "typePatterns"
  /\ Apply("typePatterns")

ApplyConfigPatterns ==
  /\ pc = "configPatterns"
  /\ Apply("configPatterns")

ApplyContactPatterns ==
  /\ pc = "contactPatterns"
  /\ Apply("contactPatterns")

ApplyCommentPatterns ==
  /\ pc = "commentPatterns"
  /\ Apply("commentPatterns")

ApplyStringPatterns ==
  /\ pc = "stringPatterns"
  /\ Apply("stringPatterns")

ApplyParameterPatterns ==
  /\ pc = "parameterPatterns"
  /\ Apply("parameterPatterns")

ApplyWorkflowPatterns ==
  /\ pc = "workflowPatterns"
  /\ Apply("workflowPatterns")

ApplyAggressivePatterns ==
  /\ pc = "aggressivePatterns"
  /\ Apply("aggressivePatterns")

\* const securityMetrics = calculateSecurityMetrics(originalCode, syntheticCode)
Score ==
  /\ pc = "return"
  /\ IF throwsTypeError(sourceType)
     THEN pc' = "rejected" /\ UNCHANGED metrics
     ELSE /\ \E random \in 0..(RandomSteps - 1) :
               metrics' = calculateSecurityMetrics(originalCode, synthetic, random,
                                                   RandomSteps)
          /\ pc' = "scored"
  /\ UNCHANGED <<originalCode, sourceType, privacyLevel, intensity, synthetic, applied,
                 pass, otherVars>>

\* the synthetic code is submitted as the next original, at the same level
Resubmit ==
  /\ pc = "scored"
  /\ pass < MaxPasses
  /\ originalCode' = synthetic
  /\ intensity' = Undefined
  /\ synthetic' = ""
  /\ applied' = {}
  /\ pc' = "intensity"
  /\ pass' = pass + 1
  /\ metrics' = NoMetrics
  /\ UNCHANGED <<sourceType, privacyLevel, otherVars>>

Next ==
  \/ ResolveIntensity
  \/ ApplyBusinessEntityMap
  \/ ApplyBusinessMethods
  \/ ApplyApiPatterns
  \/ ApplyDatabasePatterns
  \/ ApplyVariablePatterns
  \/ ApplyTypePatterns
  \/ ApplyConfigPatterns
  \/ ApplyContactPatterns
  \/ ApplyCommentPatterns
  \/ ApplyStringPatterns
  \/ ApplyParameterPatterns
  \/ ApplyWorkflowPatterns
  \/ ApplyAggressivePatterns
  \/ Score
  \/ Resubmit

Spec == Init /\ [][Next]_vars

----------------------------------------------------------------------------
(* The run of transformCode of App.tsx on a submitted text                 *)

\* const intensity = ...; let synthetic = originalCode
AppResolveIntensity ==
  /\ pc = "intensity"
  /\ intensity' = intensityOf(privacyLevel)
  /\ synthetic' = originalCode
  /\ pc' = "AppBaseRules"
  /\ UNCHANGED <<originalCode, sourceType, privacyLevel, applied, pass, metrics,
                 otherVars>>

\* the replacements 1 to 13
AppBase ==
  /\ pc = "AppBaseRules"
  /\ IF throwsTypeError(sourceType)
     THEN /\ pc' = "rejected"
          /\ UNCHANGED <<synthetic, applied>>
     ELSE /\ synthetic' = forEach(AppBaseRules, synthetic)
          /\ applied' = applied \cup {"AppBaseRules"}
          /\ pc' = "AppBusinessLogicRules"
  /\ UNCHANGED <<originalCode, sourceType, privacyLevel, intensity, pass, metrics,
                 otherVars>>

\* 14: if (intensity > 0.6) { ... }
AppBusinessLogic ==
  /\ pc = "AppBusinessLogicRules"
  /\ IF GreaterThan(intensity, 6)
     THEN /\ synthetic' = forEach(AppBusinessLogicRules, synthetic)
          /\ applied' = applied \cup {"AppBusinessLogicRules"}
     ELSE UNCHANGED <<synthetic, applied>>
  /\ pc' = "AppAggressiveRules"
  /\ UNCHANGED <<originalCode, sourceType, privacyLevel, intensity, pass, metrics,
                 otherVars>>

\* 15: if (intensity > 0.8) { ... }; return synthetic
AppAggressive ==
  /\ pc = "AppAggressiveRules"
  /\ IF GreaterThan(intensity, 8)
     THEN /\ synthetic' = forEach(AppAggressiveRules, synthetic)
          /\ applied' = applied \cup {"AppAggressiveRules"}
     ELSE UNCHANGED <<synthetic, applied>>
  /\ pc' = "return"
  /\ UNCHANGED <<originalCode, sourceType, privacyLevel, intensity, pass, metrics,
                 otherVars>>

NextApp ==
  \/ AppResolveIntensity
  \/ AppBase
  \/ AppBusinessLogic
  \/ AppAggressive

SpecApp == Init /\ [][NextApp]_vars

----------------------------------------------------------------------------
(* calculateSecurityMetrics on any pair of texts                           *)

\* the texts that are scored against one another
ScoreTexts ==
  {"", "get", "salary", "compensationAmount", "get alice@acme.com",
   "get user@example.com", "STRIPE_API_KEY", "API_CREDENTIAL",
   "salary calculateTax http://foo.bar /api/v1/users a@b.io",
   "x calculateTax http://foo.bar /api/v1/users a@b.io"}

\* calculateSecurityMetrics(original, synthetic) is about to be called
InitScore ==
  /\ originalCode \in ScoreTexts
  /\ synthetic \in ScoreTexts
  /\ sourceType = "string"
  /\ privacyLevel = "balanced"
  /\ intensity = Undefined
  /\ applied = {}
  /\ pc = "return"
  /\ pass = 1
  /\ metrics = NoMetrics
  /\ codeData = NoCodeData
  /\ activeTab = "input"
  /\ isTransforming = FALSE
  /\ originalIndex = 0
  /\ syntheticIndex = 0
  /\ diff = <<>>

SpecScore == InitScore /\ [][Score]_vars
----------------------------------------------------------------------------
(* App: the tabs, the stored result and the calls of handleCodeTransformation *)

\* the values of the four TabsTrigger
Tabs == {"input", "security", "ai-demo", "executive"}

\* disabled={!codeData} on the three result tabs; the input tab has no such
\* attribute
disabledNever(tab, data) == FALSE

disabled(tab, data) == tab # "input" /\ data = NoCodeData

\* a variant of the finally block that runs after a success only
finallyAfterSuccess(threw) == threw

\* finally { setIsTransforming(false) }: isTransforming after the call, thrown
\* or not
finally(threw) == FALSE

\* the texts of the input panel; a text of white space only is not submitted
InputCodes == {"", "  ", "get", "salary", "get alice@acme.com"}

\* App is mounted: no stored result, the input tab, no call in progress
InitUI ==
  /\ originalCode = ""
  /\ sourceType = "string"
  /\ privacyLevel = "balanced"
  /\ intensity = Undefined
  /\ synthetic = ""
  /\ applied = {}
  /\ pc = "idle"
  /\ pass = 1
  /\ metrics = NoMetrics
  /\ codeData = NoCodeData
  /\ activeTab = "input"
  /\ isTransforming = FALSE
  /\ originalIndex = 0
  /\ syntheticIndex = 0
  /\ diff = <<>>

\* <Tabs value={activeTab} onValueChange={setActiveTab}>: a click on a trigger
\* that is not disabled
onValueChange ==
  /\ \E tab \in Tabs :
       /\ ~disabled(tab, codeData)
       /\ activeTab' = tab
  /\ UNCHANGED <<originalCode, sourceType, privacyLevel, intensity, synthetic, applied,
                 pc, pass, metrics, codeData, isTransforming, originalIndex,
                 syntheticIndex, diff>>

\* a click on the button of the input panel, disabled={isTransforming ||
\* !inputCode.trim()}: handleTransform calls handleCodeTransformation, which
\* runs up to its first await; the argument of the call is a text of the panel
\* or, as in Init, not a string
handleTransform ==
  /\ activeTab = "input"
  /\ ~isTransforming
  /\ \E type \in SourceTypes :
       /\ sourceType' = type
       /\ IF type = "string"
          THEN /\ originalCode' \in InputCodes
               /\ \E i \in 1..Len(originalCode') : SubSeq(originalCode', i, i) \notin Space
          ELSE originalCode' = ""
  /\ privacyLevel' \in {"paranoid", "balanced"}
  /\ isTransforming' = TRUE
  /\ pc' = "waiting"
  /\ UNCHANGED <<intensity, synthetic, applied, pass, metrics, codeData, activeTab,
                 originalIndex, syntheticIndex, diff>>

\* the timer of 2000 ms has fired: the rest of handleCodeTransformation, the
\* try block up to setActiveTab("security") or up to the throw, the catch
\* block, and the finally block
handleCodeTransformation ==
  /\ pc = "waiting"
  /\ IF throwsTypeError(sourceType)
     THEN UNCHANGED <<synthetic, metrics, codeData, activeTab>>
     ELSE /\ synthetic' = transformCode(originalCode, privacyLevel)
          /\ \E random \in 0..(RandomSteps - 1) :
               metrics' = calculateSecurityMetrics(originalCode, synthetic', random,
                                                   RandomSteps)
          /\ codeData' = CodeData(originalCode, synthetic', metrics')
          /\ activeTab' = "security"
  /\ isTransforming' = finally(throwsTypeError(sourceType))
  /\ pc' = "idle"
  /\ UNCHANGED <<originalCode, sourceType, privacyLevel, intensity, applied, pass,
                 originalIndex, syntheticIndex, diff>>

NextUI ==
  \/ onValueChange
  \/ handleTransform
  \/ handleCodeTransformation

SpecUI == InitUI /\ [][NextUI]_vars

\* the timer fires and the promises of the call settle: weak fairness of
\* handleCodeTransformation, which is enabled exactly when pc = "waiting" and
\* is the only step from "waiting" to "idle"
FairSpecUI ==
  SpecUI /\ ([]<>(pc # "waiting") \/ []<><<pc = "waiting" /\ pc' = "idle">>_vars)
----------------------------------------------------------------------------
(* generateDiff                                                            *)

RECURSIVE split(_)
\* text.split('\n'): the lines of a text, one more than its line feeds
split(s) ==
  IF \E i \in 1..Len(s) : SubSeq(s, i, i) = "\n"
  THEN LET i == CHOOSE k \in 1..Len(s) :
                  /\ SubSeq(s, k, k) = "\n"
                  /\ \A j \in 1..(k - 1) : SubSeq(s, j, j) # "\n"
       IN <<SubSeq(s, 1, i - 1)>> \o split(SubSeq(s, i + 1, Len(s)))
  ELSE <<s>>

\* a variant of entries in which a changed line gives a 'remove' entry only
entriesWithoutAdd(originalLines, syntheticLines, i, j) ==
  IF i >= Len(originalLines)
  THEN <<[type |-> "add", content |-> syntheticLines[j + 1], newLineNumber |-> j + 1]>>
  ELSE IF j >= Len(syntheticLines) \/ originalLines[i + 1] # syntheticLines[j + 1]
  THEN <<[type |-> "remove", content |-> originalLines[i + 1], oldLineNumber |-> i + 1]>>
  ELSE <<[type |-> "context", content |-> originalLines[i + 1],
          oldLineNumber |-> i + 1, newLineNumber |-> j + 1]>>

\* the entries that one pass of the while loop pushes, with originalIndex i
\* and syntheticIndex j, one of them within its text
entries(originalLines, syntheticLines, i, j) ==
  IF i >= Len(originalLines)
  THEN <<[type |-> "add", content |-> syntheticLines[j + 1], newLineNumber |-> j + 1]>>
  ELSE IF j >= Len(syntheticLines)
  THEN <<[type |-> "remove", content |-> originalLines[i + 1], oldLineNumber |-> i + 1]>>
  ELSE IF originalLines[i + 1] = syntheticLines[j + 1]
  THEN <<[type |-> "context", content |-> originalLines[i + 1],
          oldLineNumber |-> i + 1, newLineNumber |-> j + 1]>>
  ELSE <<[type |-> "remove", content |-> originalLines[i + 1], oldLineNumber |-> i + 1],
         [type |-> "add", content |-> syntheticLines[j + 1], newLineNumber |-> j + 1]>>

\* generateDiff(original, synthetic) is called: the two texts, an empty diff
\* and the two indexes at zero
InitDiff ==
  /\ originalCode \in {"", "a", "a\nb", "a\nc", "b\na\nb", "a\n", "a\nb\nc", "x\nb", "\n\n"}
  /\ synthetic \in {"", "a", "a\nb", "a\nc", "b\na\nb", "a\n", "a\nb\nc", "x\nb", "\n\n"}
  /\ sourceType = "string"
  /\ privacyLevel = "balanced"
  /\ intensity = Undefined
  /\ applied = {}
  /\ pc = "while"
  /\ pass = 1
  /\ metrics = NoMetrics
  /\ codeData = NoCodeData
  /\ activeTab = "input"
  /\ isTransforming = FALSE
  /\ originalIndex = 0
  /\ syntheticIndex = 0
  /\ diff = <<>>

\* one pass of while (originalIndex < originalLines.length ||
\* syntheticIndex < syntheticLines.length)
generateDiffPass ==
  /\ pc = "while"
  /\ originalIndex < Len(split(originalCode)) \/ syntheticIndex < Len(split(synthetic))
  /\ diff' = diff \o entries(split(originalCode), split(synthetic), originalIndex,
                             syntheticIndex)
  /\ originalIndex' = IF originalIndex >= Len(split(originalCode)) THEN originalIndex
                      ELSE originalIndex + 1
  /\ syntheticIndex' = IF originalIndex >= Len(split(originalCode))
                          \/ syntheticIndex < Len(split(synthetic))
                       THEN syntheticIndex + 1 ELSE syntheticIndex
  /\ UNCHANGED <<originalCode, sourceType, privacyLevel, intensity, synthetic, applied,
                 pc, pass, metrics, codeData, activeTab, isTransforming>>

\* the condition of the loop is false: return diff
generateDiffReturn ==
  /\ pc = "while"
  /\ ~(originalIndex < Len(split(originalCode)) \/ syntheticIndex < Len(split(synthetic)))
  /\ pc' = "return diff"
  /\ UNCHANGED <<originalCode, sourceType, privacyLevel, intensity, synthetic, applied,
                 pass, metrics, codeData, activeTab, isTransforming, originalIndex,
                 syntheticIndex, diff>>

NextDiff ==
  \/ generateDiffPass
  \/ generateDiffReturn

\* the loop is synchronous code: it runs on until it returns
SpecDiff == InitDiff /\ [][NextDiff]_vars /\ WF_vars(NextDiff)
----------------------------------------------------------------------------
(* Properties                                                              *)

\* s has an occurrence of sub
Contains(s, sub) ==
  \E i \in 1..(Len(s) - Len(sub) + 1) : SubSeq(s, i, i + Len(sub) - 1) = sub

\* the categories transformCode applies without a condition
BaseCategories == { Categories[j] : j \in 1..11 }

ThreeLevels == {"paranoid", "balanced", "performance"}

\* C2: whenever calculateSecurityMetrics has run, the empty original
\* included, privacyScore, leakageRisk, competitiveRisk and aiParity are
\* numbers between 0 and 100.
C2_ScoresBounded ==
  pc = "scored" =>
    /\ metrics.privacyScore \in 0..100
    /\ metrics.leakageRisk \in 0..100
    /\ metrics.competitiveRisk \in 0..100
    /\ metrics.aiParity.type = "number"
    /\ metrics.aiParity.v \in 0..100

\* C3: paranoid resolves to the intensity 0.9, balanced to 0.7, performance
\* to 0.4; every other privacy level resolves to 0.7 and, at the end of
\* transformCode, to the categories of balanced.
C3_IntensityResolver ==
  pc # "intensity" =>
    /\ privacyLevel = "paranoid" => intensity = Number(9)
    /\ privacyLevel = "balanced" => intensity = Number(7)
    /\ privacyLevel = "performance" => intensity = Number(4)
    /\ privacyLevel \notin ThreeLevels =>
         /\ intensity = Number(7)
         /\ pc \in {"return", "scored"} =>
              applied = BaseCategories \cup {"workflowPatterns"}

\* C4: at the end of transformCode the base categories have been applied at
\* every level, the workflow category exactly when the intensity is above
\* 0.6 and the aggressive (domain vocabulary) category exactly when it is
\* above 0.8: performance has the base categories only, balanced the base
\* and the workflow categories, paranoid all of them.
C4_MonotonicActivation ==
  pc \in {"return", "scored"} =>
    /\ BaseCategories \subseteq applied
    /\ "workflowPatterns" \in applied <=> (intensity.type = "number" /\ intensity.v > 6)
    /\ "aggressivePatterns" \in applied <=> (intensity.type = "number" /\ intensity.v > 8)
    /\ privacyLevel = "performance" => applied = BaseCategories
    /\ privacyLevel = "balanced" => applied = BaseCategories \cup {"workflowPatterns"}
    /\ privacyLevel = "paranoid" =>
         applied = BaseCategories \cup {"workflowPatterns", "aggressivePatterns"}

\* a run at balanced has ended with the workflow category applied and the
\* aggressive one left out, on a text the workflow category rewrites
C4_BalancedRunEnded ==
  /\ pc = "return"
  /\ privacyLevel = "balanced"
  /\ originalCode = "refundOrder(roi)"
  /\ "workflowPatterns" \in applied
  /\ "aggressivePatterns" \notin applied
  /\ synthetic # originalCode

\* C5: when the result of a run is submitted again at the same level, the
\* metrics of the second run report no further reduction: the differences
\* of the business terms, the URLs, the API endpoints and the sensitive data
\* are all zero.
C5_FixedPointOnCounts ==
  (pc = "scored" /\ pass >= 2) =>
    /\ metrics.transformationDetails.businessTermsReduced = 0
    /\ metrics.transformationDetails.urlsAnonymized = 0
    /\ metrics.transformationDetails.apiEndpointsGeneralized = 0
    /\ metrics.transformationDetails.sensitiveDataObfuscated = 0

\* C6: when the result of a run is submitted again at the same level, the
\* second run returns its input unchanged.
C6_TextualIdempotence ==
  (pc = "return" /\ pass >= 2) => synthetic = originalCode

\* C7: at paranoid the text transformCode returns has no occurrence of
\* customer or Customer, and none of the host name stripe that the submitted
\* texts carry in a URL only.
C7_NoCustomerAtParanoid ==
  (pc = "return" /\ privacyLevel = "paranoid") =>
    /\ ~Contains(synthetic, "customer")
    /\ ~Contains(synthetic, "Customer")
    /\ ~Contains(synthetic, "stripe")

\* C8: when the submitted text has an http(s) URL, the text transformCode
\* returns carries the placeholder https://api.example.com/endpoint.
C8_CanonicalUrlPlaceholder ==
  (/\ pc = "return"
   /\ pass = 1
   /\ (Contains(originalCode, "http://") \/ Contains(originalCode, "https://"))) =>
    Contains(synthetic, "https://api.example.com/endpoint")

\* C9: for Scenario A at paranoid the metrics report businessTermsReduced of
\* at least 2 and complianceReady.
C9_ScenarioAMetrics ==
  (/\ pc = "scored"
   /\ pass = 1
   /\ originalCode = ScenarioA
   /\ privacyLevel = "paranoid") =>
    /\ metrics.transformationDetails.businessTermsReduced >= 2
    /\ metrics.complianceReady = TRUE

\* the text has no match of any of the six families calculateSecurityMetrics counts
NoTrackedOccurrence(t) ==
  /\ matchCount(t, businessTermsPattern, TRUE) = 0
  /\ matchCount(t, urlsInOriginalPattern, FALSE) = 0
  /\ matchCount(t, apiEndpointsInOriginalPattern, FALSE) = 0
  /\ matchCount(t, sensitiveInOriginalPattern, FALSE) = 0
  /\ matchCount(t, methodsPattern, TRUE) = 0
  /\ matchCount(t, classesPattern, TRUE) = 0

----------------------------------------------------------------------------
(* Properties of single categories                                         *)

\* the strings that the successive matches among ms cover in s
RECURSIVE MatchedFrom(_, _, _)
MatchedFrom(s, ms, from) ==
  LET m == Find(ms, from)
  IN IF ~m.ok THEN {}
     ELSE {SubSeq(s, m.s, m.e - 1)} \cup
          MatchedFrom(s, ms, IF m.e > m.s THEN m.e ELSE m.s + 1)

\* the set of the strings of s.match(pattern), pattern with the flag g
matched(s, rx) == MatchedFrom(s, MatchesOf(rx, s), 1)

\* the shape of an email address, as calculateSecurityMetrics counts it
emailShape ==
  Cat(<<Plus(Word \cup {".", "-"}), Lit("@"), Plus(Word \cup {".", "-"}), Lit("."),
        AtLeast(Lowers \cup Uppers, 2)>>)

\* C11: when the submitted text has an email address, at every level, the
\* text transformCode returns carries user@example.com and every
\* email-shaped string of it is user@example.com.
C11_EmailPlaceholder ==
  (pc = "return" /\ pass = 1 /\ matched(originalCode, emailShape) # {}) =>
    /\ Contains(synthetic, "user@example.com")
    /\ matched(synthetic, emailShape) \subseteq {"user@example.com"}


\* the openings of a comment and the words that make a comment sensitive
CommentDelimiters == {"//", "/*", "#"}

SensitiveCommentWords ==
  {"business", "proprietary", "confidential", "internal", "secret", "company",
   "competitive", "strategic", "trade secret", "copyright", "trademark"}

\* the text commentPatterns writes for a comment that opens with the delimiter d
genericComment(d) ==
  IF d = "//" THEN commentPatterns[1].repl[1].s
  ELSE IF d = "/*" THEN commentPatterns[2].repl[1].s
  ELSE commentPatterns[3].repl[1].s

\* s is one comment that opens with d and has one of the sensitive words
IsSensitiveComment(s, d) ==
  /\ Len(s) >= Len(d) + 2
  /\ SubSeq(s, 1, Len(d)) = d
  /\ IF d = "/*" THEN SubSeq(s, Len(s) - 1, Len(s)) = "*/"
     ELSE \A i \in 1..Len(s) : Ch(s, i) \notin LineTerminators
  /\ \E w \in SensitiveCommentWords : Contains(s, w)

\* C12: a comment of the submitted text that has a word of the sensitivity
\* list comes back as the generic comment of its delimiter, at every level:
\* no category before commentPatterns rewrites the word so that the comment
\* is left in the text.
C12_SensitiveCommentReplaced ==
  \A d \in CommentDelimiters :
    (pc = "return" /\ pass = 1 /\ IsSensitiveComment(originalCode, d)) =>
      synthetic = genericComment(d)

----------------------------------------------------------------------------
(* Properties of the metrics                                               *)

\* a fraction <<n, d>> between 0 and 1
InUnitInterval(r) == r[2] > 0 /\ 0 <= r[1] /\ r[1] <= r[2]

\* C13: for the pair of texts that is scored, the rate of each of the six
\* families is between 0 and 1, the weights are not negative and sum to one
\* (100 hundredths), and avgTransformationRate, their weighted sum, is
\* between 0 and 1.
C13_CompositeRateBounded ==
  pc = "scored" =>
    LET rs == transformationRates(familyCounts(originalCode, synthetic))
    IN /\ \A j \in 1..6 : InUnitInterval(rs[j])
       /\ \A j \in 1..6 : weights[j] >= 0
       /\ weights[1] + weights[2] + weights[3] + weights[4] + weights[5] + weights[6] = 100
       /\ InUnitInterval(avgTransformationRate(rs))

\* a scored pair in which one family has more occurrences after the rewrite
\* than before it: Math.max makes its rate zero
C13_MoreAfterThanBefore ==
  /\ pc = "scored"
  /\ LET counts == familyCounts(originalCode, synthetic)
     IN \E j \in 1..6 : counts[j][1] > 0 /\ counts[j][2] > counts[j][1]

----------------------------------------------------------------------------
(* Properties of a submission                                              *)

\* C14: when what is submitted is null or undefined, transformCode returns
\* nothing: no category is applied, the run never reaches its return, no
\* metrics are computed.
C14_NoResultForNoText ==
  sourceType # "string" =>
    /\ pc \notin {"return", "scored"}
    /\ applied = {}
    /\ metrics = NoMetrics

\* the submission of null or undefined has been rejected
C14_Rejected == sourceType \in {"null", "undefined"} /\ pc = "rejected"

\* C15: the metrics of a pair of texts are determined by the pair: whatever
\* Math.random() gives, calculateSecurityMetrics returns the same record, and
\* aiParity in it depends on the two lengths only.
C15_ScoreDeterministic ==
  (pc = "return" /\ sourceType = "string") =>
    \A r1, r2 \in 0..(RandomSteps - 1) :
      calculateSecurityMetrics(originalCode, synthetic, r1, RandomSteps) =
        calculateSecurityMetrics(originalCode, synthetic, r2, RandomSteps)

\* a rule of the category c has a match in s
MatchesIn(c, s) == \E k \in 1..Len(rulesOf(c)) : test(rulesOf(c)[k], s)

\* no rule of a category that is active at the intensity x has a match in s
NoActiveRuleMatches(s, x) ==
  \A j \in 1..Len(Categories) : isActive(Categories[j], x) => ~MatchesIn(Categories[j], s)

\* C16: at every level transformCode returns the empty text for the empty
\* text, and returns unchanged a text in which no rule of an active category
\* has a match.
C16_NoMatchNoChange ==
  (pc = "return" /\ sourceType = "string") =>
    /\ originalCode = "" => synthetic = ""
    /\ NoActiveRuleMatches(originalCode, intensity) => synthetic = originalCode

\* a text is returned in which only rules of a category that is not active
\* have a match
C16_OnlyInactiveRulesMatch ==
  /\ pc = "return"
  /\ sourceType = "string"
  /\ originalCode # ""
  /\ NoActiveRuleMatches(originalCode, intensity)
  /\ \E j \in 1..Len(Categories) : MatchesIn(Categories[j], originalCode)

----------------------------------------------------------------------------
(* Properties of the order of the categories                               *)

\* the categories of contact details, configuration constants, comments and
\* string literals, and the categories of entity nouns and of type names
ContextualCategories ==
  {"contactPatterns", "configPatterns", "commentPatterns", "stringPatterns"}

StructuralCategories == {"businessEntityMap", "typePatterns"}

\* C17: a category of entity nouns or type names is applied only after the
\* categories of contact details, configuration constants, comments and string
\* literals, so that when a rule of commentPatterns or stringPatterns has a
\* match in the submitted text, the returned text carries the replacement of
\* that rule.
C17_ContextualBeforeStructural ==
  /\ (applied \cap StructuralCategories # {}) => ContextualCategories \subseteq applied
  /\ (pc = "return" /\ sourceType = "string" /\ pass = 1) =>
       \A c \in {"commentPatterns", "stringPatterns"} :
         \A k \in 1..Len(rulesOf(c)) :
           test(rulesOf(c)[k], originalCode) =>
             Contains(synthetic, rulesOf(c)[k].repl[1].s)

\* the role suffixes and the entity nouns of the names typePatterns rewrites,
\* and the neutral nouns it writes
RoleSuffixes ==
  {"Service", "Controller", "Repository", "Manager", "Handler", "Processor",
   "Validator", "Factory", "Builder"}

TypeNouns ==
  {"Customer", "User", "Client", "Member", "Patient", "Student", "Employee", "Vendor",
   "Supplier", "Order", "Transaction", "Purchase", "Sale", "Payment", "Invoice",
   "Product", "Item", "Resource", "Asset", "Service"}

NeutralNouns == {"Entity", "Operation", "Resource"}

\* C18: a name made of an entity noun and a role suffix is returned as a
\* neutral noun followed by the same suffix, at every level: no category
\* before typePatterns rewrites it to a name without the suffix.
C18_RoleSuffixPreserved ==
  (pc = "return" /\ sourceType = "string" /\ pass = 1) =>
    \A n \in TypeNouns, s \in RoleSuffixes :
      originalCode = n \o s => \E m \in NeutralNouns : synthetic = m \o s

\* the number of categories that the run has passed when it is at pc
passed(at) ==
  IF at = "return" THEN Len(Categories)
  ELSE (CHOOSE j \in 1..Len(Categories) : Categories[j] = at) - 1

\* C19: during a run the categories applied are the active ones among the
\* first categories of the catalog, none passed over; the first active
\* category with a match in the submitted text reads that text, so that where
\* two categories overlap the earlier one decides; and the text returned is
\* the catalog applied in its order from the submitted text.
C19_CatalogOrder ==
  (sourceType = "string" /\ pc \in {Categories[j] : j \in 1..Len(Categories)} \cup {"return"}) =>
    LET n == passed(pc)
    IN /\ applied = {Categories[j] : j \in {k \in 1..n : isActive(Categories[k], intensity)}}
       /\ (/\ n >= 1
           /\ isActive(Categories[n], intensity)
           /\ \A k \in 1..(n - 1) :
                isActive(Categories[k], intensity) => ~MatchesIn(Categories[k], originalCode))
            => synthetic = forEach(rulesOf(Categories[n]), originalCode)
       /\ pc = "return" => synthetic = transformCode(originalCode, privacyLevel)

\* two active categories have a match in the submitted text, and the text
\* returned is what the earlier one writes, not what the later one writes
C19_EarlierCategoryDecides ==
  /\ pc = "return"
  /\ sourceType = "string"
  /\ \E i, j \in 1..Len(Categories) :
       /\ i < j
       /\ isActive(Categories[i], intensity) /\ isActive(Categories[j], intensity)
       /\ MatchesIn(Categories[i], originalCode) /\ MatchesIn(Categories[j], originalCode)
       /\ synthetic = forEach(rulesOf(Categories[i]), originalCode)
       /\ synthetic # forEach(rulesOf(Categories[j]), originalCode)

----------------------------------------------------------------------------
(* Properties of calculateSecurityMetrics on any pair of texts             *)

\* C21: for the pair of texts that is scored, the rate of every family with
\* occurrences in the original is max(0, 1 - after / before), a fraction over
\* the count before, and the rate of a family without occurrences is its
\* fallback, 1/2 for the business terms and 1 for the others: no rate has a
\* zero denominator.
C21_GuardedRatios ==
  pc = "scored" =>
    LET counts == familyCounts(originalCode, synthetic)
        rs == transformationRates(counts)
    IN \A j \in 1..6 :
         /\ rs[j][2] > 0
         /\ counts[j][1] > 0 =>
              /\ rs[j][2] \in {1, counts[j][1]}
              /\ rs[j][1] * counts[j][1] =
                   rs[j][2] * (IF counts[j][2] >= counts[j][1] THEN 0
                               ELSE counts[j][1] - counts[j][2])
         /\ counts[j][1] = 0 => rs[j] = IF j = 1 THEN <<1, 2>> ELSE <<1, 1>>

\* a scored pair with a family that has occurrences before and fewer after,
\* and a family that has none before
C21_BothCasesScored ==
  /\ pc = "scored"
  /\ LET counts == familyCounts(originalCode, synthetic)
     IN /\ \E j \in 1..6 : counts[j][1] > 0 /\ counts[j][2] < counts[j][1]
        /\ \E j \in 1..6 : counts[j][1] = 0 /\ counts[j][2] > 0

C24_NothingReducedNotReady ==
  (/\ pc = "scored"
   /\ synthetic = originalCode
   /\ matched(originalCode, businessTermsPattern) # {})
    => ~metrics.complianceReady

\* C26: when every string of the scored synthetic text that has the shape of
\* an email address, of a secret constant or of an endpoint constant is one of
\* the placeholders of transformCode, sensitiveInSynthetic is zero, and the
\* rate of the family is 1 when the original has such a string.
C26_PlaceholdersNotCounted ==
  (/\ pc = "scored"
   /\ matched(synthetic, sensitiveInOriginalPattern) \subseteq
        {"user@example.com", "API_CREDENTIAL", "SERVICE_ENDPOINT",
         "EXTERNAL_SERVICE_KEY", "DATABASE_CONFIG", "AUTH_CONFIG",
         "CLIENT_CREDENTIAL"})
    => LET counts == familyCounts(originalCode, synthetic)
       IN /\ counts[4][2] = 0
          /\ counts[4][1] > 0 => transformationRates(counts)[4] = <<1, 1>>

\* C25: the four differences that calculateSecurityMetrics reports for the
\* submitted text and the text transformCode returns for it are not negative.
C25_NoCountIncreases ==
  pc = "scored" =>
    /\ metrics.transformationDetails.businessTermsReduced >= 0
    /\ metrics.transformationDetails.urlsAnonymized >= 0
    /\ metrics.transformationDetails.apiEndpointsGeneralized >= 0
    /\ metrics.transformationDetails.sensitiveDataObfuscated >= 0

\* C23: the three scores of the scored pair are the rounded, clamped affine
\* functions of its composite rate R, and against every rate q of twentieths
\* between 0 and 1: for q <= R the privacy score of q is not higher and the
\* leakage and competitive risks of q are not lower than those of the pair,
\* and the reverse for R <= q.
C23_ScoresMonotone ==
  pc = "scored" =>
    \A R \in {avgTransformationRate(transformationRates(
                 familyCounts(originalCode, synthetic)))} :
      LET privacy == (2 * (65 * R[2] + 33 * R[1]) + R[2]) \div (2 * R[2])
          leakage == (2 * (35 * R[2] - 34 * R[1]) + R[2]) \div (2 * R[2])
          competitive == (2 * (25 * R[2] - 24 * R[1]) + R[2]) \div (2 * R[2])
      IN /\ metrics.privacyScore = IF privacy > 98 THEN 98 ELSE privacy
         /\ metrics.leakageRisk = IF leakage < 1 THEN 1 ELSE leakage
         /\ metrics.competitiveRisk = IF competitive < 1 THEN 1 ELSE competitive
         /\ \A k \in 0..20 :
              /\ k * R[2] <= 20 * R[1] =>
                   /\ roundMin(98, 65, 33, <<k, 20>>) <= metrics.privacyScore
                   /\ roundMax(1, 35, 34, <<k, 20>>) >= metrics.leakageRisk
                   /\ roundMax(1, 25, 24, <<k, 20>>) >= metrics.competitiveRisk
              /\ 20 * R[1] <= k * R[2] =>
                   /\ roundMin(98, 65, 33, <<k, 20>>) >= metrics.privacyScore
                   /\ roundMax(1, 35, 34, <<k, 20>>) <= metrics.leakageRisk
                   /\ roundMax(1, 25, 24, <<k, 20>>) <= metrics.competitiveRisk

\* a scored pair with a composite rate strictly between 0 and 1 and scores
\* between their bounds
C23_RateInside ==
  /\ pc = "scored"
  /\ metrics.privacyScore \in 66..97
  /\ metrics.leakageRisk \in 2..34
  /\ metrics.competitiveRisk \in 2..24
  /\ metrics.transformationDetails.overallTransformationRate \in 1..99

----------------------------------------------------------------------------
(* Properties of App                                                       *)

\* C27: whenever the active tab is one of the three result tabs, a result is
\* stored: a result tab is not selected while codeData is null, and a call
\* that succeeds stores its result in the step that makes "security" the
\* active tab.
C27_ResultTabHasCodeData ==
  /\ activeTab \in Tabs
  /\ activeTab \in {"security", "ai-demo", "executive"} => codeData # NoCodeData

\* a result tab is shown that the user selected
C27_ResultTabSelected ==
  /\ activeTab \in {"ai-demo", "executive"}
  /\ codeData # NoCodeData

\* C28: a call starts only while isTransforming is false and makes it true;
\* the texts, the metrics and the stored result change only in a step taken
\* while it is true; the step that ends a call, thrown or not, makes it false;
\* and whenever it is true it becomes false later.
C28_IsTransformingBrackets ==
  /\ [][/\ pc' = "waiting" /\ pc # "waiting" => ~isTransforming /\ isTransforming'
        /\ (synthetic' # synthetic \/ metrics' # metrics \/ codeData' # codeData)
             => isTransforming
        /\ pc = "waiting" /\ pc' # "waiting" => ~isTransforming']_vars
  /\ [](isTransforming <=> pc = "waiting")
  /\ isTransforming ~> ~isTransforming

\* a call that threw has ended and isTransforming is false
C28_FalseAfterThrow ==
  /\ pc = "idle"
  /\ sourceType # "string"
  /\ ~isTransforming

\* C29: the step that ends a call whose argument is null or undefined, in
\* which transformCode throws, leaves codeData and activeTab as they are; and
\* every stored result has the text of a call, the text transformCode returns
\* for it and the metrics of the two.
C29_ThrowLeavesResult ==
  /\ [][(pc = "waiting" /\ pc' = "idle" /\ sourceType \in {"null", "undefined"})
          => UNCHANGED <<codeData, activeTab>>]_vars
  /\ [](codeData # NoCodeData =>
          /\ codeData.original \in InputCodes
          /\ \E level \in {"paranoid", "balanced"} :
               codeData.synthetic = transformCode(codeData.original, level)
          /\ codeData.securityMetrics # NoMetrics)

\* a call that threw has ended and the result of an earlier call is stored
C29_ResultKeptAfterThrow ==
  /\ pc = "idle"
  /\ sourceType \in {"null", "undefined"}
  /\ codeData # NoCodeData
  /\ activeTab = "input"

----------------------------------------------------------------------------
(* Properties of generateDiff                                              *)

\* C30: generateDiff returns, and in the diff it returns the entries of type
\* 'remove' or 'context' are, in order, one for each line of the original
\* with its content and its number from 1, the entries of type 'add' or
\* 'context' are, in order, one for each line of the synthetic text with its
\* content and its number from 1, and an entry of type 'context' has the same
\* number on both sides.
C30_EveryLineOnce ==
  /\ <>(pc = "return diff")
  /\ [](pc = "return diff" =>
          LET originalLines == split(originalCode)
              syntheticLines == split(synthetic)
              IsOld(e) == e.type \in {"remove", "context"}
              IsNew(e) == e.type \in {"add", "context"}
              olds == SelectSeq(diff, IsOld)
              news == SelectSeq(diff, IsNew)
          IN /\ \A k \in 1..Len(diff) : diff[k].type \in {"add", "remove", "context"}
             /\ Len(olds) = Len(originalLines)
             /\ \A k \in 1..Len(olds) :
                  olds[k].oldLineNumber = k /\ olds[k].content = originalLines[k]
             /\ Len(news) = Len(syntheticLines)
             /\ \A k \in 1..Len(news) :
                  news[k].newLineNumber = k /\ news[k].content = syntheticLines[k]
             /\ \A k \in 1..Len(diff) :
                  diff[k].type = "context" =>
                    /\ diff[k].oldLineNumber = diff[k].newLineNumber
                    /\ originalLines[diff[k].oldLineNumber]
                         = syntheticLines[diff[k].newLineNumber])

\* a returned diff with an entry of each type
C30_AllTypesReturned ==
  /\ pc = "return diff"
  /\ \A t \in {"add", "remove", "context"} : \E k \in 1..Len(diff) : diff[k].type = t
  /\ Len(split(originalCode)) # Len(split(synthetic))
====
